---- MODULE Spec2Model ----
(***************************************************************************)
(* Model of the product-image scraper (src/src/download_images.py,         *)
(* src/src/fetch_products_map.py, src/src/download_images_api.py).         *)
(*                                                                         *)
(* Encodings                                                               *)
(*   Optional[str]  : <<>> is None, <<s>> is the string s.                 *)
(*   str            : a sequence of tokens; <<>> is the empty string "".   *)
(*                    `needle in s` is decided token by token with the     *)
(*                    table TokenHas.                                      *)
(*   HTML document  : [og, body]; og is the first <meta property=og:image> *)
(*                    (present, content attribute), body the sequence of   *)
(*                    top-level nodes in document order, each an <img> or  *)
(*                    a <vip-image> holding <img> children.                *)
(***************************************************************************)
EXTENDS Integers, Sequences, FiniteSets, TLC

VARIABLES
    html,         \* extractor input: the parsed page of one candidate URL
    dom_src,      \* extractor input: the src attribute Selenium reads from the DOM
    image_url,    \* extractor output (Optional[str])
    xpc,          \* extractor position: "idle", "in_requests", "in_selenium", "requests", "selenium"
    cfg,          \* configuration: DOMAIN_KEY, browser binaries, MAX_WORKERS, DEFAULT_CHUNKSIZE,
                  \* HTTP_WORKERS
    tasks,        \* download_images.run: list(product_map.items()), <<product_id, codigo_erp>>
    files,        \* RAW_IMAGES_DIR: codigo_erp -> state of <codigo_erp>.jpg
    files0,       \* RAW_IMAGES_DIR as it was when run() was started
    tracing,      \* history switch: hist_fast and hist_slow are kept only when TRUE
    hist_fast,    \* per task: what each candidate tried by the fast path came to
    hist_slow,    \* per task: what each candidate tried by the worker came to
    pc,           \* orchestrator position: "Init", "FastPass", "SlowPass", "Done";
                  \* "Crashed" when run() was left by an exception
    fast,         \* per task: the fast-path attempt (_http_attempt)
    collected,    \* futures whose result the as_completed loop has taken
    fast_failures,\* run: fast_failures
    fast_success, \* run: fast_success
    slow,         \* per task: the browser-stage attempt (download_image_worker)
    pool,         \* multiprocessing.Pool: "none", "running", "terminated"
    workers,      \* pool worker processes
    chunks,       \* pool task queue: chunks of task indexes not yet taken
    results,      \* run: results
    outbox,       \* results the pool processes have sent and run() has not yet taken
    selenium_success, \* run: selenium_success
    total_success, \* run: total_success (-1 until the summary is printed)
    mpc,          \* main(): "off"; fetch_products_map.run at "orders", "products", ended
                  \* "saved", "failed", "aborted"; download_images.run has "loaded" the
                  \* map, or was left by the "load_error"
    current_page, \* fetch_products_map.run: current_page
    total_pages,  \* fetch_products_map.run: total_pages
    all_order_codes, \* fetch_products_map.run: all_order_codes
    pending,      \* orders whose product list the imap_unordered loop has not yet received
    product_map,  \* fetch_products_map.run: product_map, in insertion order
    map_file,     \* PRODUCT_MAP_PATH: [st, map]; st is "absent", "json" (the file holds
                  \* the JSON text of map) or "cut" (it holds less than a JSON text)
    api_pc,       \* download_images_api position: "off", "best_in", "best_out", "first",
                  \* "pages", "collected", "no_tasks", "pool", "done"
    image_urls,   \* get_best_image_url: its argument (a product's imagemUrls)
    best_url,     \* get_best_image_url: its result (Optional[str])
    api_page,     \* collect_all_products: page, the page the loop is at
    api_total_pages, \* collect_all_products: total_pages
    download_tasks,  \* collect_all_products: download_tasks, <<codigo_erp, image URL>>
    fetched,      \* the calls of fetch_products_page, in order: [page, resp]
    api_workers,  \* download_images_api.run: worker processes of its Pool
    api_attempts, \* per download task: download_image_worker of download_images_api,
                  \* [st, res]; st is "queued", "taken", "get", "write", "done" or
                  \* "sent"
    api_results,  \* download_images_api.run: results
    api_outbox,   \* results the pool processes have sent and run() has not yet taken
    api_summary   \* download_images_api.run: <<success_count, failed_count>>, <<>> before

xvars == <<html, dom_src, image_url, xpc>>
pvars == <<cfg, tasks, files, files0, tracing, hist_fast, hist_slow, pc, fast, collected, fast_failures,
           fast_success, slow, pool, workers, chunks, results, outbox,
           selenium_success, total_success>>
mvars == <<mpc, current_page, total_pages, all_order_codes, pending, product_map, map_file>>
avars == <<api_pc, image_urls, best_url, api_page, api_total_pages, download_tasks, fetched,
           api_workers, api_attempts, api_results, api_outbox, api_summary>>
vars == <<xvars, pvars, mvars, avars>>

----------------------------------------------------------------------------
(* Strings and attributes *)

None == <<>>
Some(s) == <<s>>
EmptyStr == <<>>

\* Python truthiness of an Optional[str]: None and "" are falsy.
Truthy(a) == a # None /\ a[1] # EmptyStr

\* Python `a or b`.
PyOr(a, b) == IF Truthy(a) THEN a ELSE b

\* The needles the code looks for inside a token of a URL.
TokenHas(tok) ==
    CASE tok = "/default_image.png" -> {"default", "default_image"}
      [] tok = "/placeholder.png"   -> {"placeholder"}
      [] tok = "/produto"           -> {"/produto"}
      [] tok = "/produtos"          -> {"/produto", "/produtos"}
      [] tok = "/products"          -> {"/products"}
      [] tok = "/uploads"           -> {"/uploads"}
      [] tok = "/images"            -> {"/images"}
      [] OTHER                      -> {}

\* Python `needle in s` for a str s.
Contains(s, needle) == \E i \in 1..Len(s) : needle \in TokenHas(s[i])

UrlPlain       == <<"https://cdn", "/a.jpg">>
UrlPlain2      == <<"https://cdn", "/b.jpg">>
UrlProduct     == <<"https://cdn", "/uploads", "/c.jpg">>
UrlOg          == <<"https://cdn", "/og.jpg">>
UrlDefault     == <<"https://cdn", "/images", "/default_image.png">>
UrlPlaceholder == <<"https://cdn", "/placeholder.png">>

----------------------------------------------------------------------------
(* HTML documents *)

Img(cls, src, dsrc) == [tag |-> "img", cls |-> cls, src |-> src, dsrc |-> dsrc, imgs |-> <<>>]
VipImage(cls, imgs) == [tag |-> "vip-image", cls |-> cls, src |-> None, dsrc |-> None, imgs |-> imgs]
NoOg == [present |-> FALSE, content |-> None]
Og(content) == [present |-> TRUE, content |-> content]
Doc(og, body) == [og |-> og, body |-> body]

\* soup.find_all('img'): every img of the document in document order, each
\* with the class set of the vip-image that contains it (inVip, vipCls).
RECURSIVE FlattenImgs(_)
FlattenImgs(body) ==
    IF body = <<>> THEN <<>>
    ELSE LET n == Head(body)
             here == IF n.tag = "img"
                     THEN << [cls |-> n.cls, src |-> n.src, dsrc |-> n.dsrc,
                              inVip |-> FALSE, vipCls |-> {}] >>
                     ELSE [i \in 1..Len(n.imgs) |->
                              [cls |-> n.imgs[i].cls, src |-> n.imgs[i].src,
                               dsrc |-> n.imgs[i].dsrc,
                               inVip |-> TRUE, vipCls |-> n.cls]]
         IN here \o FlattenImgs(Tail(body))

\* soup.find('vip-image'): the first vip-image element, as <<node>>, or <<>>.
FindVipImage(body) ==
    LET idx == {i \in 1..Len(body) : body[i].tag = "vip-image"}
    IN IF idx = {} THEN <<>>
       ELSE << body[CHOOSE i \in idx : \A j \in idx : i <= j] >>

\* 'vip-image.m-auto img, img.m-auto, img.vip-image'
MatchesSelector(im) ==
    \/ im.inVip /\ "m-auto" \in im.vipCls
    \/ "m-auto" \in im.cls
    \/ "vip-image" \in im.cls

\* soup.select_one(...): the first img in document order matching the selector.
SelectOne(body) ==
    LET all == FlattenImgs(body)
        idx == {i \in 1..Len(all) : MatchesSelector(all[i])}
    IN IF idx = {} THEN <<>>
       ELSE << all[CHOOSE i \in idx : \A j \in idx : i <= j] >>

----------------------------------------------------------------------------
(* ImageURLExtractor: _try_get_image_url_requests *)

ProductFragments == {"/produto", "/produtos", "/products", "/uploads", "/images"}

\* 1) Open Graph: og.get('content') when the meta tag exists and it is truthy.
OgStep(doc) ==
    IF doc.og.present /\ Truthy(doc.og.content) THEN doc.og.content ELSE None

\* 2) vip-image tag: first img of the first vip-image, src or data-src.
VipStep(doc) ==
    LET vip == FindVipImage(doc.body)
    IN IF vip = <<>> THEN None
       ELSE IF vip[1].imgs = <<>> THEN None
       ELSE LET src == PyOr(vip[1].imgs[1].src, vip[1].imgs[1].dsrc)
            IN IF Truthy(src) THEN src ELSE None

\* 3) Common selectors: the select_one match, src or data-src.
SelectorStep(doc) ==
    LET img == SelectOne(doc.body)
    IN IF img = <<>> THEN None
       ELSE LET src == PyOr(img[1].src, img[1].dsrc)
            IN IF Truthy(src) THEN src ELSE None

\* 4) Heuristic: the loop over soup.find_all('img') from position i on, with
\* the last-resort candidate remembered so far.
RECURSIVE HeuristicLoop(_, _, _)
HeuristicLoop(imgs, i, candidate) ==
    IF i > Len(imgs) THEN candidate
    ELSE LET src == PyOr(imgs[i].src, imgs[i].dsrc)
         IN IF ~Truthy(src) THEN HeuristicLoop(imgs, i + 1, candidate)
            ELSE IF Contains(src[1], "default") \/ Contains(src[1], "placeholder")
                 THEN HeuristicLoop(imgs, i + 1, candidate)
            ELSE IF \E x \in ProductFragments : Contains(src[1], x) THEN src
            ELSE IF candidate = None THEN HeuristicLoop(imgs, i + 1, src)
            ELSE HeuristicLoop(imgs, i + 1, candidate)

HeuristicStep(doc) == HeuristicLoop(FlattenImgs(doc.body), 1, None)

\* Mutant of ExtractImageUrl: the vip-image tag is looked at before og:image.
ExtractImageUrlVipFirst(doc) ==
    IF VipStep(doc) # None THEN VipStep(doc)
    ELSE IF OgStep(doc) # None THEN OgStep(doc)
    ELSE IF SelectorStep(doc) # None THEN SelectorStep(doc)
    ELSE HeuristicStep(doc)

\* The four strategies in the order the code evaluates them.
ExtractImageUrl(doc) ==
    IF OgStep(doc) # None THEN OgStep(doc)
    ELSE IF VipStep(doc) # None THEN VipStep(doc)
    ELSE IF SelectorStep(doc) # None THEN SelectorStep(doc)
    ELSE HeuristicStep(doc)

\* A page response: a transport error, or an HTTP status with a document.
EmptyDoc == Doc(NoOg, <<>>)
TransportError == [kind |-> "error", status |-> 0, doc |-> EmptyDoc]
HttpResponse(status, doc) == [kind |-> "http", status |-> status, doc |-> doc]

try_get_image_url_requests(resp) ==
    IF resp.kind = "error" THEN None
    ELSE IF resp.status # 200 THEN None
    ELSE ExtractImageUrl(resp.doc)

\* download_image_worker.try_get_image_url, after the element was found:
\* the src attribute read from the DOM, rejected when missing or placeholder.
SeleniumCheckSrc(src) ==
    IF ~Truthy(src) \/ Contains(src[1], "default_image") THEN None ELSE src

----------------------------------------------------------------------------
(* Inputs of the extractor: bounded sets of documents *)

MaxNodes == 2

\* (src, data-src) pairs of an img element.
AttrPairs ==
    ({Some(UrlPlain), Some(UrlProduct), Some(UrlDefault), Some(UrlPlaceholder)} \X {None})
    \cup {<<None, None>>, <<None, Some(UrlPlain2)>>, <<Some(EmptyStr), Some(UrlPlain2)>>}

TopImgs ==
    {Img(c, p[1], p[2]) : c \in {{}, {"m-auto"}}, p \in AttrPairs}
    \cup {Img({"vip-image"}, s, None) : s \in {Some(UrlPlain), Some(UrlDefault)}}
InnerImgs == {Img({}, p[1], p[2]) : p \in AttrPairs}
VipNodes == {VipImage(c, imgs) : c \in {{}, {"m-auto"}},
                                 imgs \in {<<>>} \cup {<<im>> : im \in InnerImgs}}
Nodes == TopImgs \cup VipNodes
OgTags == {NoOg, Og(None), Og(Some(EmptyStr)), Og(Some(UrlOg)), Og(Some(UrlDefault))}

Bodies == UNION {[1..n -> Nodes] : n \in 0..MaxNodes}
Docs == {Doc(og, b) : og \in OgTags, b \in Bodies}

ExtractorResponses ==
    {TransportError, HttpResponse(404, EmptyDoc)} \cup {HttpResponse(200, d) : d \in Docs}

DomSrcs == {None, Some(EmptyStr), Some(UrlPlain), Some(UrlProduct), Some(UrlDefault),
            Some(UrlPlaceholder)}

----------------------------------------------------------------------------
(* Specification of the extractor alone *)

PipelineOff ==
    /\ cfg = [domain_key |-> None, chromedriver |-> FALSE, chrome |-> FALSE,
              max_workers |-> 1, chunksize |-> 1, http_workers |-> 1]
    /\ tasks = <<>>
    /\ tracing = FALSE /\ hist_fast = <<>> /\ hist_slow = <<>> /\ pc = "Off"
    /\ fast = <<>> /\ collected = {} /\ fast_failures = <<>> /\ fast_success = 0
    /\ slow = <<>> /\ pool = "none" /\ workers = <<>> /\ chunks = <<>>
    /\ results = <<>> /\ outbox = <<>>
    /\ selenium_success = 0 /\ total_success = -1

PipelineIdle ==
    /\ PipelineOff
    /\ files = [k \in {} |-> "absent"] /\ files0 = files

\* The file at PRODUCT_MAP_PATH: absent; holding the JSON text of a map; or
\* opened for writing (truncated) and left with less than the text, which
\* is a proper prefix of it, the empty file included.
NoFile == [st |-> "absent", map |-> <<>>]
JsonFile(m) == [st |-> "json", map |-> m]
CutFile == [st |-> "cut", map |-> <<>>]

MapIdle ==
    /\ mpc = "off" /\ current_page = 1 /\ total_pages = 1 /\ all_order_codes = <<>>
    /\ pending = {} /\ product_map = <<>> /\ map_file = NoFile

ApiIdle ==
    /\ api_pc = "off" /\ image_urls = <<>> /\ best_url = None
    /\ api_page = 1 /\ api_total_pages = 1 /\ download_tasks = <<>>
    /\ fetched = <<>> /\ api_workers = 0
    /\ api_attempts = <<>> /\ api_results = <<>> /\ api_outbox = <<>>
    /\ api_summary = <<>>

ExtractInit ==
    /\ PipelineIdle
    /\ MapIdle
    /\ ApiIdle
    /\ image_url = None
    /\ \/ xpc = "in_requests" /\ html \in ExtractorResponses /\ dom_src = None
       \/ xpc = "in_selenium" /\ html = TransportError /\ dom_src \in DomSrcs

\* _try_get_image_url_requests applied to the response of one page fetch.
ExtractRequests ==
    /\ xpc = "in_requests"
    /\ image_url' = try_get_image_url_requests(html)
    /\ xpc' = "requests"
    /\ UNCHANGED <<html, dom_src, pvars, mvars, avars>>

\* try_get_image_url applied to the src attribute of the element found.
ExtractSelenium ==
    /\ xpc = "in_selenium"
    /\ image_url' = SeleniumCheckSrc(dom_src)
    /\ xpc' = "selenium"
    /\ UNCHANGED <<html, dom_src, pvars, mvars, avars>>

ExtractNext == ExtractRequests \/ ExtractSelenium

SpecExtract == ExtractInit /\ [][ExtractNext]_vars

----------------------------------------------------------------------------
(* The pipeline: download_images.run *)

MaxTasks == 2

Min(a, b) == IF a <= b THEN a ELSE b
Max(a, b) == IF a >= b THEN a ELSE b

\* Decimal digits and their values.
Digits == <<"0", "1", "2", "3", "4", "5", "6", "7", "8", "9">>
DigitVal(d) == (CHOOSE n \in 1..10 : Digits[n] = d) - 1

\* int(s) for a string of decimal digits.
RECURSIVE IntOf(_)
IntOf(str) ==
    IF str = <<>> THEN 0
    ELSE 10 * IntOf(SubSeq(str, 1, Len(str) - 1)) + DigitVal(str[Len(str)])

\* _get_system_resources, line 44: os.cpu_count() or 1 (cpu_count is None or
\* a positive number).
Cpus(cpu_count) == IF cpu_count = None \/ cpu_count[1] = 0 THEN 1 ELSE cpu_count[1]

\* Line 73: HTTP_WORKERS = int(os.getenv('HTTP_WORKERS') or min(32, max(4, CPUS * 2))).
HTTP_WORKERS(env, cpu_count) ==
    IF Truthy(env) THEN IntOf(env[1]) ELSE Min(32, Max(4, Cpus(cpu_count) * 2))

Keys == {"A10", "B20"}

\* product_id of the i-th entry of product_map.json (the keys of a dict are distinct).
PidNames == <<"101", "102", "103", "104", "105", "106", "107", "108">>
PidName(i) == PidNames[i]

\* What the network can answer to the fetch of a candidate page.
DocNoImage == EmptyDoc
DocOgImage == Doc(Og(Some(UrlOg)), <<VipImage({"m-auto"}, <<Img({}, Some(UrlDefault), None)>>)>>)
DocUnrendered == Doc(NoOg, <<VipImage({"m-auto"}, <<Img({}, Some(UrlDefault), None)>>)>>)
PageResponses ==
    {TransportError, HttpResponse(404, EmptyDoc)}
    \cup {HttpResponse(200, d) : d \in {DocNoImage, DocOgImage, DocUnrendered}}

\* What the browser can give for a candidate page: a wait that times out, a
\* WebDriverException, an exception of another class (the connection to a
\* chromedriver process that has died is refused: urllib3 raises, not
\* Selenium), or the src attribute of the product-image element.
DomOutcomes ==
    {[kind |-> "timeout", src |-> None], [kind |-> "wderror", src |-> None],
     [kind |-> "othererror", src |-> None]}
    \cup {[kind |-> "src", src |-> a] : a \in {None, Some(UrlDefault), Some(UrlPlain)}}

\* str.rstrip('/')
RECURSIVE RStripSlash(_)
RStripSlash(str) ==
    IF str # EmptyStr /\ str[Len(str)] = "/"
    THEN RStripSlash(SubSeq(str, 1, Len(str) - 1))
    ELSE str

\* base = (DOMAIN_KEY or "").rstrip('/'), with 'https://' put in front of a
\* non-empty base that has no scheme.
BaseUrl(domain_key) ==
    LET base == RStripSlash(IF Truthy(domain_key) THEN domain_key[1] ELSE EmptyStr)
    IN IF base # EmptyStr /\ base[1] \notin {"http://", "https://"}
       THEN <<"https://">> \o base
       ELSE base

\* urls = [f"{base}/produto/{product_id}", f"{base}/produto/{codigo_erp}"]
CandidateUrls(base, task) ==
    << base \o <<"/produto/", task[1]>>, base \o <<"/produto/", task[2]>> >>

\* output_path = RAW_IMAGES_DIR/<codigo_erp>.jpg, named by its codigo_erp.
OutputPath(task) == task[2]

\* os.path.exists(output_path)
PathExists(fs, path) == fs[path] # "absent"

\* One attempt of one task in one stage.
\*   st    : "new", "queued", "cand" (about to try candidate c), "write" (file
\*           opened, about to write), "done"
\*   c     : the candidate URL the attempt is at (0 before the loop)
\*   via   : the method that gave the image URL being downloaded
\*   wrote : f.write was called on the output file
\*   res   : "none", "present" (AlreadyPresent), "saved", "failed", "raised"
\*           (the attempt was left by an exception)
\*   calls : history (kept when tracing): the extraction methods called, in
\*           order, each with the candidate it was called for and whether
\*           it gave an image URL
NewAttempt ==
    [st |-> "new", c |-> 0, via |-> "none", wrote |-> FALSE, res |-> "none", calls |-> <<>>]
QueuedAttempt == [NewAttempt EXCEPT !.st = "queued"]

AttemptOk(a) == a.res \in {"present", "saved"}
Running(a) == a.st \in {"cand", "write"}

\* Mutant of BeginAttempt: the os.path.exists test is lost.
BeginAttemptNoExistsCheck(a, task, fs, domain_key) ==
    IF BaseUrl(domain_key) = EmptyStr
    THEN [a EXCEPT !.st = "done", !.res = "failed"]
    ELSE [a EXCEPT !.st = "cand", !.c = 1]

\* Mutant of BeginAttempt: the DOMAIN_KEY check comes first.
BeginAttemptDomainFirst(a, task, fs, domain_key) ==
    IF BaseUrl(domain_key) = EmptyStr
    THEN [a EXCEPT !.st = "done", !.res = "failed"]
    ELSE IF PathExists(fs, OutputPath(task))
    THEN [a EXCEPT !.st = "done", !.res = "present"]
    ELSE [a EXCEPT !.st = "cand", !.c = 1]

\* The head of both attempts: existence check, then the DOMAIN_KEY check.
BeginAttempt(a, task, fs, domain_key) ==
    IF PathExists(fs, OutputPath(task))
    THEN [a EXCEPT !.st = "done", !.res = "present"]
    ELSE IF BaseUrl(domain_key) = EmptyStr
    THEN [a EXCEPT !.st = "done", !.res = "failed"]
    ELSE [a EXCEPT !.st = "cand", !.c = 1]

\* Mutant of NextCandidate: the loop is left after the first candidate.
NextCandidateGiveUp(a, task, domain_key) ==
    [a EXCEPT !.st = "done", !.res = "failed", !.via = "none"]

\* The for loop goes on to the next candidate URL, or falls out: return False.
NextCandidate(a, task, domain_key) ==
    IF a.c < Len(CandidateUrls(BaseUrl(domain_key), task))
    THEN [a EXCEPT !.st = "cand", !.c = @ + 1, !.via = "none"]
    ELSE [a EXCEPT !.st = "done", !.res = "failed", !.via = "none"]

\* return False from inside the loop.
ReturnFalse(a) == [a EXCEPT !.st = "done", !.res = "failed", !.via = "none"]

\* Mutant of ReturnTrue: after a saved image the loop goes on.
ReturnTrueGoOn(a) ==
    IF a.c < 2 THEN [a EXCEPT !.st = "cand", !.c = @ + 1]
    ELSE [a EXCEPT !.st = "done", !.res = "saved"]

\* return True after the write.
ReturnTrue(a) == [a EXCEPT !.st = "done", !.res = "saved"]

\* History: [via, out] for each candidate tried, in order; via is the method
\* that decided it ("requests" or "selenium") and out is "error", "non200",
\* "noimg" (page fetch without an image URL), "timeout", "wderror",
\* "rejected" (browser without an image URL), "othererror" (the browser call
\* raised what the worker does not catch), "dlfail" (image URL found, its
\* download or write failed) or "saved".
Event(via, out) == [via |-> via, out |-> out]
Log(h, i, ev) == IF tracing THEN [h EXCEPT ![i] = Append(@, ev)] ELSE h
\* The cause of a candidate without image URL matters to the history alone.
Seen(out) == IF tracing THEN out ELSE "untraced"

\* What the page fetch of a candidate came to when it gave no image URL.
PageOutcome(resp) ==
    IF resp.kind = "error" THEN "error"
    ELSE IF resp.status # 200 THEN "non200"
    ELSE "noimg"

\* What the browser came to when it gave no image URL.
DomOutcome(dom) == IF dom.kind = "src" THEN "rejected" ELSE dom.kind

\* except (TimeoutException, WebDriverException), line 254.
Caught(kind) == kind \in {"timeout", "wderror"}

\* try_get_image_url is left by an exception: one that line 254 does not catch.
Raises(driver, dom) == driver /\ dom.kind # "src" /\ ~Caught(dom.kind)

\* try_get_image_url: None without a driver or on TimeoutException or
\* WebDriverException, else the src attribute after the placeholder check.
try_get_image_url(driver, dom) ==
    IF ~driver THEN None
    ELSE IF dom.kind # "src" THEN None
    ELSE SeleniumCheckSrc(dom.src)

\* download_image_worker is left by the exception of try_get_image_url
\* (line 297 is in no try block).
RaiseOut(a) == [a EXCEPT !.st = "done", !.res = "raised", !.via = "none"]

\* In the fast path a failed download lets the loop go on (line 350 has no else).
FastDownloadFailed(a, task, domain_key) == NextCandidate(a, task, domain_key)

\* Mutant of WorkerDownloadFailed: the worker goes on as the fast path does.
WorkerDownloadFailedGoOn(a, task, domain_key) == NextCandidate(a, task, domain_key)

\* In the worker a failed download returns False at once (lines 303-304).
WorkerDownloadFailed(a, task, domain_key) == ReturnFalse(a)

TaskIds == 1..Len(tasks)

\* Pool._get_tasks: the iterable cut into batches of `size`.
RECURSIVE Chunked(_, _)
Chunked(seq, size) ==
    IF seq = <<>> THEN <<>>
    ELSE IF Len(seq) <= size THEN <<seq>>
    ELSE <<SubSeq(seq, 1, size)>> \o Chunked(SubSeq(seq, size + 1, Len(seq)), size)

\* processes = max(1, min(MAX_WORKERS, len(fast_failures)))
Processes(max_workers, n_failures) == Max(1, Min(max_workers, n_failures))

\* sum(1 for r in results if r is True)
CountTrue(seq) == Cardinality({i \in 1..Len(seq) : seq[i]})

\* A pool process before its initializer has run. driver: the browser this
\* process started is alive; inst: the browser driver_process_global refers
\* to in this process (0 is None), browsers being named by the process that
\* started them; inits, sessions: how many browsers and HTTP sessions the
\* process has made.
NewWorker ==
    [st |-> "starting", driver |-> FALSE, chunk |-> <<>>, out |-> <<>>,
     inst |-> 0, inits |-> 0, sessions |-> 0]

----------------------------------------------------------------------------
(* Configurations and task lists the pipeline is started with *)

DomainSet == Some(<<"loja.example", "/">>)

\* The thread pool of the fast path on a host of 4 CPUs: HTTP_WORKERS unset
\* in the environment (8 threads), or set to 1 (the futures run one after
\* the other).
HostCpus == Some(4)
HttpDefault == HTTP_WORKERS(None, HostCpus)
HttpSizes == {HttpDefault, HTTP_WORKERS(Some(<<"1">>), HostCpus)}

FullConfigs ==
    {[domain_key |-> DomainSet, chromedriver |-> TRUE, chrome |-> TRUE,
      max_workers |-> 2, chunksize |-> 1, http_workers |-> HttpDefault],
     [domain_key |-> DomainSet, chromedriver |-> TRUE, chrome |-> TRUE,
      max_workers |-> 1, chunksize |-> 16, http_workers |-> HttpDefault]}
OtherConfigs ==
    [domain_key : {None, Some(<<"/">>)}, chromedriver : {TRUE}, chrome : {TRUE},
     max_workers : {2}, chunksize : {1}, http_workers : {HttpDefault}]
    \cup [domain_key : {DomainSet}, chromedriver : {FALSE}, chrome : {TRUE},
          max_workers : {2}, chunksize : {1}, http_workers : HttpSizes]
    \cup [domain_key : {DomainSet}, chromedriver : {TRUE}, chrome : {FALSE},
          max_workers : {2}, chunksize : {1}, http_workers : {HttpDefault}]
Configs == FullConfigs \cup OtherConfigs

\* list(product_map.items()): distinct product ids, any codigo_erp each
\* (the first task's codigo_erp is fixed: the two keys are interchangeable).
TaskLists ==
    UNION {{[i \in 1..n |-> <<PidName(i), k[i]>>] :
               k \in {f \in [1..n -> Keys] : n = 0 \/ f[1] = "A10"}} : n \in 0..MaxTasks}

----------------------------------------------------------------------------
(* Orchestrator: run() *)

\* Lines 315-333: the output directory, the task list, the session, and
\* the executor of the fast path; no task is submitted yet.
StartFast ==
    /\ pc = "Init"
    /\ pc' = "FastPass"
    /\ UNCHANGED <<avars, xvars, mvars, cfg, tasks, files, files0, tracing, hist_fast, hist_slow,
                   fast, collected, fast_failures, fast_success, slow, pool, workers, chunks,
                   results, outbox, selenium_success, total_success>>

\* exc.submit has been called for the task.
Submitted(i) == fast[i].st # "new"

\* Lines 355-356: one turn of `for t in tasks`: the next task of the list is
\* submitted; the executor's threads run the tasks submitted before it
\* meanwhile.
Submit(i) ==
    /\ pc = "FastPass"
    /\ ~Submitted(i)
    /\ \A j \in 1..(i - 1) : Submitted(j)
    /\ fast' = [fast EXCEPT ![i] = QueuedAttempt]
    /\ UNCHANGED <<avars, xvars, mvars, cfg, tasks, files, files0, tracing, hist_fast, hist_slow, pc,
                   collected, fast_failures, fast_success, slow, pool, workers, chunks,
                   results, outbox, selenium_success, total_success>>

\* _http_attempt, lines 336-346: one of the HTTP_WORKERS threads of the
\* executor (line 332) is free and takes the task.
HttpBegin(i) ==
    /\ pc = "FastPass"
    /\ fast[i].st = "queued"
    /\ Cardinality({j \in TaskIds : Running(fast[j])}) < cfg.http_workers
    /\ fast' = [fast EXCEPT ![i] = BeginAttempt(@, tasks[i], files, cfg.domain_key)]
    /\ UNCHANGED <<avars, xvars, mvars, cfg, tasks, files, files0, tracing, hist_fast, hist_slow, pc,
                   collected, fast_failures, fast_success, slow, pool, workers, chunks,
                   results, outbox, selenium_success, total_success>>

\* What one pass of the fast-path loop body comes to before the file is
\* touched (lines 348-350 and 136-137): no image URL from the page ("next"),
\* an image URL whose fetch failed ("dlfail"), or image bytes in hand and
\* the file about to be opened ("open").
HttpOutcome(resp, got) ==
    LET url == try_get_image_url_requests(resp)
    IN IF ~Truthy(url) THEN [step |-> "next", via |-> "requests", out |-> Seen(PageOutcome(resp))]
       ELSE IF ~got THEN [step |-> "dlfail", via |-> "requests", out |-> "dlfail"]
       ELSE [step |-> "open", via |-> "requests", out |-> "open"]

HttpOutcomes == {HttpOutcome(resp, got) : resp \in PageResponses, got \in BOOLEAN}

\* _download_image_bytes, line 138: open(output_path, 'wb') creates or
\* truncates the file, or raises.
OpenFile(fs, path, ok) == IF ok THEN [fs EXCEPT ![path] = "empty"] ELSE fs

\* _download_image_bytes, line 139: f.write(resp.content) writes everything,
\* or raises after part of it.
WriteFile(fs, path, ok) == [fs EXCEPT ![path] = IF ok THEN "full" ELSE "partial"]

\* _http_attempt, lines 347-350, and _download_image_bytes, lines 136-138:
\* the page of candidate c is fetched and parsed, an image URL is fetched,
\* and the output file is opened. The fetches touch nothing another thread
\* sees, so they make one step with the open() that follows them.
HttpCandidate(i) ==
    /\ pc = "FastPass"
    /\ fast[i].st = "cand"
    /\ \E o \in HttpOutcomes :
         IF o.step = "next"
         THEN /\ fast' = [fast EXCEPT ![i] = NextCandidate(@, tasks[i], cfg.domain_key)]
              /\ hist_fast' = Log(hist_fast, i, Event(o.via, o.out))
              /\ files' = files
         ELSE IF o.step = "dlfail"
         THEN /\ fast' = [fast EXCEPT ![i] = FastDownloadFailed(@, tasks[i], cfg.domain_key)]
              /\ hist_fast' = Log(hist_fast, i, Event(o.via, o.out))
              /\ files' = files
         ELSE \E ok \in BOOLEAN :
              /\ files' = OpenFile(files, OutputPath(tasks[i]), ok)
              /\ IF ok
                 THEN /\ fast' = [fast EXCEPT ![i] = [@ EXCEPT !.st = "write", !.via = o.via]]
                      /\ hist_fast' = hist_fast
                 ELSE /\ fast' = [fast EXCEPT ![i] =
                            FastDownloadFailed(@, tasks[i], cfg.domain_key)]
                      /\ hist_fast' = Log(hist_fast, i, Event(o.via, "dlfail"))
    /\ UNCHANGED <<avars, xvars, mvars, cfg, tasks, files0, tracing, hist_slow, pc, collected,
                   fast_failures, fast_success, slow, pool, workers, chunks, results, outbox, selenium_success, total_success>>

HttpWrite(i) ==
    /\ pc = "FastPass"
    /\ fast[i].st = "write"
    /\ \E ok \in BOOLEAN :
         /\ files' = WriteFile(files, OutputPath(tasks[i]), ok)
         /\ IF ok
            THEN /\ fast' = [fast EXCEPT ![i] = ReturnTrue([@ EXCEPT !.wrote = TRUE])]
                 /\ hist_fast' = Log(hist_fast, i, Event("requests", "saved"))
            ELSE /\ fast' = [fast EXCEPT ![i] =
                       FastDownloadFailed([@ EXCEPT !.wrote = TRUE], tasks[i], cfg.domain_key)]
                 /\ hist_fast' = Log(hist_fast, i, Event("requests", "dlfail"))
    /\ UNCHANGED <<avars, xvars, mvars, cfg, tasks, files0, tracing, hist_slow, pc, collected,
                   fast_failures, fast_success, slow, pool, workers, chunks, results, outbox, selenium_success, total_success>>

\* Mutant of CollectResult: the `if not ok` test is lost.
CollectResultAll(failures, i, ok) == Append(failures, i)

\* Lines 360-366: a task that is not ok joins fast_failures.
CollectResult(failures, i, ok) == IF ok THEN failures ELSE Append(failures, i)

\* Lines 358-367: the loop over as_completed, which run() comes to when
\* every task is submitted, is handed a finished future.
Collect(i) ==
    /\ pc = "FastPass"
    /\ \A j \in TaskIds : Submitted(j)
    /\ fast[i].st = "done"
    /\ i \notin collected
    /\ collected' = collected \cup {i}
    /\ fast_failures' = CollectResult(fast_failures, i, AttemptOk(fast[i]))
    /\ UNCHANGED <<avars, xvars, mvars, cfg, tasks, files, files0, tracing, hist_fast, hist_slow, pc,
                   fast, fast_success, slow, pool, workers, chunks, results, outbox, selenium_success, total_success>>

\* Mutant of FastPassComplete: the stage is left at the first result.
FastPassFirstCompleted(done, ids) == done # {} \/ ids = {}

\* Leaving the with block of line 332: every future has been collected.
FastPassComplete(done, ids) == done = ids

\* Lines 369-374: the executor has been left; fast_success is computed.
FinishFast ==
    /\ pc = "FastPass"
    /\ FastPassComplete(collected, TaskIds)
    /\ pc' = "SlowPass"
    /\ fast_success' = Len(tasks) - Len(fast_failures)
    /\ selenium_success' = 0
    /\ UNCHANGED <<avars, xvars, mvars, cfg, tasks, files, files0, tracing, hist_fast, hist_slow, fast,
                   collected, fast_failures, slow, pool, workers, chunks, results, outbox, total_success>>

\* Mutant of BinariesPresent: the Chrome binary is not looked for.
BinariesPresentDriverOnly(c) == c.chromedriver

\* Line 377: both binaries exist.
BinariesPresent(c) == c.chromedriver /\ c.chrome

\* Mutant of SlowStageNeeded: the `if fast_failures` test is lost.
SlowStageNeededNoTest(failures, c) == BinariesPresent(c)

\* Lines 375-377: the browser stage is run when a task failed and both
\* binaries exist.
SlowStageNeeded(failures, c) == failures # <<>> /\ BinariesPresent(c)

\* total_success = fast_success + selenium_success
\* Mutant of TotalSuccess: the browser-stage successes are counted twice.
TotalSuccessTwice(f, sel) == f + sel + sel

\* Line 391: total_success = fast_success + selenium_success.
TotalSuccess(f, sel) == f + sel

\* Line 394: the number printed as "Failed or Not Found".
FailedCount(total, succ) == total - succ

\* Lines 375-378 and 391-396: nothing failed, or a binary is missing: the
\* browser stage is not run and the summary is printed.
SkipSlow ==
    /\ pc = "SlowPass"
    /\ pool = "none"
    /\ ~SlowStageNeeded(fast_failures, cfg)
    /\ pc' = "Done"
    /\ total_success' = TotalSuccess(fast_success, selenium_success)
    /\ UNCHANGED <<avars, xvars, mvars, cfg, tasks, files, files0, tracing, hist_fast, hist_slow, fast,
                   collected, fast_failures, fast_success, slow, pool, workers, chunks,
                   results, outbox, selenium_success>>

\* Mutant of SlowInput: the whole task list is handed to the pool.
SlowInputAllTasks(failures) == [n \in 1..Len(tasks) |-> n]

\* The iterable handed to imap_unordered (line 386).
SlowInput(failures) == failures

\* Lines 375-385: the pool is created; its processes start and run
\* init_worker. Nothing is handed to it yet.
StartPool ==
    /\ pc = "SlowPass"
    /\ pool = "none"
    /\ SlowStageNeeded(fast_failures, cfg)
    /\ pool' = "running"
    /\ workers' = [w \in 1..Processes(cfg.max_workers, Len(fast_failures)) |-> NewWorker]
    /\ results' = <<>>
    /\ outbox' = <<>>
    /\ UNCHANGED <<avars, xvars, mvars, cfg, tasks, files, files0, tracing, hist_fast, hist_slow, pc,
                   fast, collected, fast_failures, fast_success, slow, chunks,
                   selenium_success, total_success>>

\* imap_unordered has been called: the browser stage has its tasks.
HandedOver == \E i \in TaskIds : slow[i].st # "new"

\* Line 386: pool.imap_unordered(download_image_worker, fast_failures,
\* chunksize) puts fast_failures, in chunks, on the pool's task queue.
HandOver ==
    /\ pc = "SlowPass"
    /\ pool = "running"
    /\ ~HandedOver
    /\ chunks' = Chunked(SlowInput(fast_failures), cfg.chunksize)
    /\ slow' = [i \in TaskIds |->
                  IF \E n \in 1..Len(SlowInput(fast_failures)) : SlowInput(fast_failures)[n] = i
                  THEN QueuedAttempt ELSE NewAttempt]
    /\ UNCHANGED <<avars, xvars, mvars, cfg, tasks, files, files0, tracing, hist_fast, hist_slow, pc,
                   fast, collected, fast_failures, fast_success, pool, workers, results, outbox,
                   selenium_success, total_success>>

----------------------------------------------------------------------------
(* Browser stage: the pool's worker processes *)

\* init_worker, lines 145-209: the session and the Chrome driver are
\* created; when the driver cannot be started the process leaves through
\* os._exit(1).
InitWorker(w, ok) ==
    IF ok THEN [w EXCEPT !.st = "idle", !.driver = TRUE] ELSE [w EXCEPT !.st = "exited"]

\* init_worker, lines 153-162 and 189: requests_session and, when Chrome
\* starts, driver_process_global are set in the process that runs the
\* initializer, here the process in slot id.
InitGlobals(w, ok, id) ==
    [w EXCEPT !.sessions = @ + 1,
              !.inits = IF ok THEN @ + 1 ELSE @,
              !.inst = IF ok THEN id ELSE @]

\* Mutant of DriverOf: one driver object for all the workers, the first's.
DriverOfShared(w) == workers[1].inst

\* download_image_worker, lines 215 and 226-232: the driver a worker
\* navigates is its own process's driver_process_global.
DriverOf(w) == workers[w].inst

WorkerInit(w) ==
    /\ pool = "running"
    /\ workers[w].st = "starting"
    /\ \E ok \in BOOLEAN :
         workers' = [workers EXCEPT ![w] = InitGlobals(InitWorker(@, ok), ok, w)]
    /\ UNCHANGED <<avars, xvars, mvars, cfg, tasks, files, files0, tracing, hist_fast, hist_slow, pc,
                   fast, collected, fast_failures, fast_success, slow, pool, chunks,
                   results, outbox, selenium_success, total_success>>

\* Pool._maintain_pool: a worker process that has exited is replaced by a new
\* process, which runs the initializer again.
WorkerRespawn(w) ==
    /\ pool = "running"
    /\ workers[w].st = "exited"
    /\ workers' = [workers EXCEPT ![w] = NewWorker]
    /\ UNCHANGED <<avars, xvars, mvars, cfg, tasks, files, files0, tracing, hist_fast, hist_slow, pc,
                   fast, collected, fast_failures, fast_success, slow, pool, chunks,
                   results, outbox, selenium_success, total_success>>

\* multiprocessing worker loop: an idle worker takes the next chunk.
WorkerTake(w) ==
    /\ pool = "running"
    /\ workers[w].st = "idle"
    /\ chunks # <<>>
    /\ workers' = [workers EXCEPT ![w] = [@ EXCEPT !.st = "busy", !.chunk = Head(chunks)]]
    /\ chunks' = Tail(chunks)
    /\ UNCHANGED <<avars, xvars, mvars, cfg, tasks, files, files0, tracing, hist_fast, hist_slow, pc,
                   fast, collected, fast_failures, fast_success, slow, pool, results, outbox, selenium_success, total_success>>

\* The task the worker is at: the head of its chunk.
Current(w) == Head(workers[w].chunk)
Busy(w) == pool = "running" /\ workers[w].st = "busy" /\ workers[w].chunk # <<>>

\* What a pool process puts on the pool's result queue for a chunk (pool.py,
\* worker() and mapstar): the results of the chunk's tasks, or the exception
\* that left one of them. IMapUnorderedIterator hands the results to run()
\* one by one, in the order the chunks were sent.
Sent(out) == [k \in 1..Len(out) |-> [exc |-> FALSE, val |-> out[k]]]
SentException == <<[exc |-> TRUE, val |-> FALSE]>>

\* A worker has sent an exception as the result of its chunk (result =
\* (False, e)) and run() has not come to it yet. The iterator of line 386
\* raises it when run() comes to it, after the results sent before it; what
\* is sent after it is never taken.
ExceptionSent == \E k \in 1..Len(outbox) : outbox[k].exc

\* download_image_worker, lines 216-286.
WorkerBegin(w) ==
    /\ Busy(w)
    /\ slow[Current(w)].st = "queued"
    /\ slow' = [slow EXCEPT ![Current(w)] =
                  BeginAttempt(@, tasks[Current(w)], files, cfg.domain_key)]
    /\ UNCHANGED <<avars, xvars, mvars, cfg, tasks, files, files0, tracing, hist_fast, hist_slow, pc,
                   fast, collected, fast_failures, fast_success, pool, workers, chunks,
                   results, outbox, selenium_success, total_success>>

\* Mutant of UseBrowser: the browser is navigated for every candidate.
UseBrowserAlways(fastUrl) == TRUE

\* download_image_worker, lines 292-297: try_get_image_url is called in the
\* else branch of `if image_url`.
UseBrowser(fastUrl) == ~Truthy(fastUrl)

\* What one pass of the worker's loop body comes to before the file is
\* touched (lines 291-300 and 136-137): HTTP extraction first, the browser
\* only when it gave nothing, then the fetch of the image URL.
WorkerOutcome(driver, resp, dom, got) ==
    LET fastUrl == try_get_image_url_requests(resp)
        browser == UseBrowser(fastUrl)
        url == IF browser THEN try_get_image_url(driver, dom) ELSE fastUrl
        via == IF browser THEN "selenium" ELSE "requests"
        calls == IF ~tracing THEN <<>>
                 ELSE <<[m |-> "requests", found |-> Truthy(fastUrl)]>>
                      \o IF browser
                         THEN <<[m |-> "selenium",
                                 found |-> ~Raises(driver, dom) /\ Truthy(url)]>>
                         ELSE <<>>
    IN IF browser /\ Raises(driver, dom)
       THEN [step |-> "raise", via |-> "selenium", out |-> DomOutcome(dom), calls |-> calls]
       ELSE IF ~Truthy(url)
       THEN [step |-> "next", via |-> "selenium", out |-> Seen(DomOutcome(dom)),
             calls |-> calls]
       ELSE IF ~got THEN [step |-> "dlfail", via |-> via, out |-> "dlfail", calls |-> calls]
       ELSE [step |-> "open", via |-> via, out |-> "open", calls |-> calls]

\* The calls of one pass of the loop join the attempt's history, each with
\* the candidate the pass was for.
Called(a, calls, c) ==
    [a EXCEPT !.calls = @ \o [k \in 1..Len(calls) |->
                                 [m |-> calls[k].m, c |-> c, found |-> calls[k].found]]]

WorkerOutcomes(driver) ==
    {WorkerOutcome(driver, resp, dom, got) :
        resp \in PageResponses, dom \in DomOutcomes, got \in BOOLEAN}

\* download_image_worker, lines 288-300, and _download_image_bytes, lines
\* 136-138: one pass of the loop body up to the open() of the output file.
WorkerCandidate(w) ==
    /\ Busy(w)
    /\ slow[Current(w)].st = "cand"
    /\ \E o \in WorkerOutcomes(DriverOf(w) # 0) :
         LET i == Current(w)
         IN IF o.step = "next"
            THEN /\ slow' = [slow EXCEPT ![i] =
                               Called(NextCandidate(@, tasks[i], cfg.domain_key), o.calls, slow[i].c)]
                 /\ hist_slow' = Log(hist_slow, i, Event(o.via, o.out))
                 /\ files' = files
            ELSE IF o.step = "raise"
            THEN /\ slow' = [slow EXCEPT ![i] = Called(RaiseOut(@), o.calls, slow[i].c)]
                 /\ hist_slow' = Log(hist_slow, i, Event(o.via, o.out))
                 /\ files' = files
            ELSE IF o.step = "dlfail"
            THEN /\ slow' = [slow EXCEPT ![i] =
                               Called(WorkerDownloadFailed(@, tasks[i], cfg.domain_key),
                                      o.calls, slow[i].c)]
                 /\ hist_slow' = Log(hist_slow, i, Event(o.via, o.out))
                 /\ files' = files
            ELSE \E ok \in BOOLEAN :
                 /\ files' = OpenFile(files, OutputPath(tasks[i]), ok)
                 /\ IF ok
                    THEN /\ slow' = [slow EXCEPT ![i] =
                               Called([@ EXCEPT !.st = "write", !.via = o.via],
                                      o.calls, slow[i].c)]
                         /\ hist_slow' = hist_slow
                    ELSE /\ slow' = [slow EXCEPT ![i] =
                               Called(WorkerDownloadFailed(@, tasks[i], cfg.domain_key),
                                      o.calls, slow[i].c)]
                         /\ hist_slow' = Log(hist_slow, i, Event(o.via, "dlfail"))
    /\ UNCHANGED <<avars, xvars, mvars, cfg, tasks, files0, tracing, hist_fast, pc, fast, collected,
                   fast_failures, fast_success, pool, workers, chunks, results, outbox, selenium_success, total_success>>

WorkerWrite(w) ==
    /\ Busy(w)
    /\ slow[Current(w)].st = "write"
    /\ \E ok \in BOOLEAN :
         LET i == Current(w)
         IN /\ files' = WriteFile(files, OutputPath(tasks[i]), ok)
            /\ IF ok
               THEN /\ slow' = [slow EXCEPT ![i] = ReturnTrue([@ EXCEPT !.wrote = TRUE])]
                    /\ hist_slow' = Log(hist_slow, i, Event(slow[i].via, "saved"))
               ELSE /\ slow' = [slow EXCEPT ![i] =
                          WorkerDownloadFailed([@ EXCEPT !.wrote = TRUE], tasks[i],
                                               cfg.domain_key)]
                    /\ hist_slow' = Log(hist_slow, i, Event(slow[i].via, "dlfail"))
    /\ UNCHANGED <<avars, xvars, mvars, cfg, tasks, files0, tracing, hist_fast, pc, fast, collected,
                   fast_failures, fast_success, pool, workers, chunks, results, outbox, selenium_success, total_success>>

\* The worker loop after download_image_worker returned: the result joins
\* the chunk's results; the results of a finished chunk are put on the
\* result queue and the process is free for the next chunk.
WorkerReturn(w) ==
    /\ Busy(w)
    /\ slow[Current(w)].st = "done"
    /\ slow[Current(w)].res # "raised"
    /\ LET out == Append(workers[w].out, AttemptOk(slow[Current(w)]))
           rest == Tail(workers[w].chunk)
       IN IF rest = <<>>
          THEN /\ outbox' = outbox \o Sent(out)
               /\ workers' = [workers EXCEPT ![w] =
                     [@ EXCEPT !.st = "idle", !.chunk = <<>>, !.out = <<>>]]
          ELSE /\ outbox' = outbox
               /\ workers' = [workers EXCEPT ![w] = [@ EXCEPT !.chunk = rest, !.out = out]]
    /\ UNCHANGED <<avars, xvars, mvars, cfg, tasks, files, files0, tracing, hist_fast, hist_slow, pc,
                   fast, collected, fast_failures, fast_success, slow, pool, chunks, results,
                   selenium_success, total_success>>

\* Lines 386-387: the for statement takes the next result the iterator has
\* and run() appends it.
RunAppend ==
    /\ pc = "SlowPass"
    /\ pool = "running"
    /\ outbox # <<>>
    /\ ~Head(outbox).exc
    /\ results' = Append(results, Head(outbox).val)
    /\ outbox' = Tail(outbox)
    /\ UNCHANGED <<avars, xvars, mvars, cfg, tasks, files, files0, tracing, hist_fast, hist_slow, pc,
                   fast, collected, fast_failures, fast_success, slow, pool, workers, chunks,
                   selenium_success, total_success>>

\* Pool.__exit__ calls terminate(): the worker processes get SIGTERM, and a
\* process killed by a signal runs no atexit handler; a worker that leaves
\* its loop first (it read the pool's sentinel) exits as a process, where
\* the start method decides whether atexit handlers run. quit[w] says
\* whether the _quit_driver registered at line 201 ran in worker w.
Terminate(ws, quit) ==
    [w \in DOMAIN ws |->
        [ws[w] EXCEPT !.st = "terminated", !.driver = @ /\ ~quit[w]]]

\* Lines 386-396: every result has arrived; leaving the with block
\* terminates the pool, and the summary is printed.
PoolFinish ==
    /\ pc = "SlowPass"
    /\ pool = "running"
    /\ HandedOver
    /\ Len(results) = Len(fast_failures)
    /\ pool' = "terminated"
    /\ \E quit \in [DOMAIN workers -> BOOLEAN] : workers' = Terminate(workers, quit)
    /\ selenium_success' = CountTrue(results)
    /\ total_success' = TotalSuccess(fast_success, CountTrue(results))
    /\ pc' = "Done"
    /\ UNCHANGED <<avars, xvars, mvars, cfg, tasks, files, files0, tracing, hist_fast, hist_slow, fast,
                   collected, fast_failures, fast_success, slow, chunks, results, outbox>>

\* An exception of download_image_worker ends the worker's pass over the
\* chunk (mapstar): the tasks left in the chunk are not run, the results of
\* the chunk so far are dropped, and the chunk's result is the exception.
\* The worker process sends it and goes back to its loop, where it can take
\* the next chunk.
WorkerRaise(w) ==
    /\ Busy(w)
    /\ slow[Current(w)].st = "done"
    /\ slow[Current(w)].res = "raised"
    /\ workers' = [workers EXCEPT ![w] =
                      [@ EXCEPT !.st = "idle", !.chunk = <<>>, !.out = <<>>]]
    /\ outbox' = outbox \o SentException
    /\ UNCHANGED <<avars, xvars, mvars, cfg, tasks, files, files0, tracing, hist_fast, hist_slow, pc,
                   fast, collected, fast_failures, fast_success, slow, pool, chunks, results,
                   selenium_success, total_success>>

\* run() waits for results in the for statement of line 386, which raises
\* the exception a worker sent: the with block is left (Pool.__exit__
\* terminates the workers, whatever they are doing) and so is run(); lines
\* 389-396 are not executed.
RunRaise ==
    /\ pc = "SlowPass"
    /\ pool = "running"
    /\ outbox # <<>>
    /\ Head(outbox).exc
    /\ pool' = "terminated"
    /\ \E quit \in [DOMAIN workers -> BOOLEAN] : workers' = Terminate(workers, quit)
    /\ pc' = "Crashed"
    /\ UNCHANGED <<avars, xvars, mvars, cfg, tasks, files, files0, tracing, hist_fast, hist_slow, fast,
                   collected, fast_failures, fast_success, slow, chunks, results, outbox,
                   selenium_success, total_success>>

ExtractorIdle ==
    html = TransportError /\ dom_src = None /\ image_url = None /\ xpc = "idle"

\* The state run() starts in, for a task list, a history switch, a
\* configuration and an output directory.
RunStart(lists, trace, configs, disks) ==
    /\ ExtractorIdle
    /\ MapIdle
    /\ ApiIdle
    /\ cfg \in configs
    /\ tasks \in lists
    /\ files \in disks
    /\ files0 = files
    /\ tracing = trace
    /\ hist_fast = [i \in TaskIds |-> <<>>]
    /\ hist_slow = [i \in TaskIds |-> <<>>]
    /\ pc = "Init"
    /\ fast = [i \in TaskIds |-> NewAttempt]
    /\ slow = [i \in TaskIds |-> NewAttempt]
    /\ collected = {} /\ fast_failures = <<>> /\ fast_success = 0
    /\ pool = "none" /\ workers = <<>> /\ chunks = <<>> /\ results = <<>> /\ outbox = <<>>
    /\ selenium_success = 0 /\ total_success = -1

\* Every configuration; each <codigo_erp>.jpg absent or left by an earlier run.
RunInit(lists, trace) == RunStart(lists, trace, Configs, [Keys -> {"absent", "old"}])

Init == RunInit(TaskLists, FALSE)

Next ==
    \/ StartFast
    \/ \E i \in TaskIds : Submit(i)
    \/ \E i \in TaskIds : HttpBegin(i)
    \/ \E i \in TaskIds : HttpCandidate(i)
    \/ \E i \in TaskIds : HttpWrite(i)
    \/ \E i \in TaskIds : Collect(i)
    \/ FinishFast
    \/ SkipSlow
    \/ StartPool
    \/ HandOver
    \/ \E w \in DOMAIN workers : WorkerInit(w)
    \/ \E w \in DOMAIN workers : WorkerRespawn(w)
    \/ \E w \in DOMAIN workers : WorkerTake(w)
    \/ \E w \in DOMAIN workers : WorkerBegin(w)
    \/ \E w \in DOMAIN workers : WorkerCandidate(w)
    \/ \E w \in DOMAIN workers : WorkerWrite(w)
    \/ \E w \in DOMAIN workers : WorkerReturn(w)
    \/ \E w \in DOMAIN workers : WorkerRaise(w)
    \/ RunAppend
    \/ RunRaise
    \/ PoolFinish

\* The pipeline over task lists of up to MaxTasks tasks.
Spec == Init /\ [][Next]_vars

\* Scheduling: the operating system runs every thread and process that can
\* run, and the network answers or times out, so a step of run(), of a
\* fast-path thread, of a worker process or of the pool that stays possible
\* is taken in the end. Which outcome a step has is not constrained.
Fairness ==
    /\ WF_vars(StartFast)
    /\ WF_vars(\E i \in TaskIds : Submit(i))
    /\ WF_vars(\E i \in TaskIds : HttpBegin(i))
    /\ WF_vars(\E i \in TaskIds : HttpCandidate(i))
    /\ WF_vars(\E i \in TaskIds : HttpWrite(i))
    /\ WF_vars(\E i \in TaskIds : Collect(i))
    /\ WF_vars(FinishFast)
    /\ WF_vars(SkipSlow)
    /\ WF_vars(StartPool)
    /\ WF_vars(HandOver)
    /\ WF_vars(\E w \in DOMAIN workers : WorkerInit(w))
    /\ WF_vars(\E w \in DOMAIN workers : WorkerRespawn(w))
    /\ WF_vars(\E w \in DOMAIN workers : WorkerTake(w))
    /\ WF_vars(\E w \in DOMAIN workers : WorkerBegin(w))
    /\ WF_vars(\E w \in DOMAIN workers : WorkerCandidate(w))
    /\ WF_vars(\E w \in DOMAIN workers : WorkerWrite(w))
    /\ WF_vars(\E w \in DOMAIN workers : WorkerReturn(w))
    /\ WF_vars(\E w \in DOMAIN workers : WorkerRaise(w))
    /\ WF_vars(RunAppend)
    /\ WF_vars(RunRaise)
    /\ WF_vars(PoolFinish)

\* The pipeline under that scheduling.
SpecLive == Init /\ [][Next]_vars /\ Fairness

\* product_map.json entries with an empty product id or an empty
\* codigo_erp: json.load and dict.items() (lines 318-320) take them as they
\* are. One field of one task of a list is empty.
InvalidTaskLists ==
    UNION {UNION {{[t EXCEPT ![n] = <<"", t[n][2]>>], [t EXCEPT ![n] = <<t[n][1], "">>]} :
                     n \in 1..Len(t)} : t \in TaskLists}

\* The pipeline started on such a list, with an empty output directory.
InitInvalid ==
    RunStart(InvalidTaskLists, FALSE, FullConfigs, [Keys \cup {""} -> {"absent"}])
SpecInvalid == InitInvalid /\ [][Next]_vars

\* One task, with the history of its candidates kept.
InitAttempt == RunInit({t \in TaskLists : Len(t) = 1}, TRUE)
SpecAttempt == InitAttempt /\ [][Next]_vars

----------------------------------------------------------------------------
(* The number of browser processes: module import, then the browser stage *)

MaxDigits == 1
MaxCpus == 6
MaxFailures == 5

\* Line 64: MAX_WORKERS = int(os.getenv('MAX_WORKERS') or max(1, DEFAULT_WORKERS)),
\* with DEFAULT_WORKERS = CPUS (line 63).
MaxWorkers(env, cpu_count) ==
    IF Truthy(env) THEN IntOf(env[1]) ELSE Max(1, Cpus(cpu_count))

\* The values of the MAX_WORKERS environment variable: unset, empty, or a
\* string of up to MaxDigits decimal digits.
EnvValues ==
    {None} \cup {Some(str) : str \in UNION {[1..n -> {Digits[k] : k \in 1..10}] : n \in 0..MaxDigits}}
CpuCounts == {None} \cup {Some(n) : n \in 1..MaxCpus}

\* The task list of n tasks.
NTasks(n) == [i \in 1..n |-> <<PidName(i), "A10">>]

\* The module before line 64 has run, in a process whose run() will find
\* that the fast path failed for each of n tasks.
InitWorkers ==
    /\ ExtractorIdle
    /\ MapIdle
    /\ ApiIdle
    /\ \E env \in EnvValues, cpu_count \in CpuCounts :
         cfg = [domain_key |-> DomainSet, chromedriver |-> TRUE, chrome |-> TRUE,
                max_workers |-> 0, chunksize |-> 1, http_workers |-> HttpDefault,
                env_max_workers |-> env, cpu_count |-> cpu_count]
    /\ \E n \in 0..MaxFailures :
         /\ tasks = NTasks(n)
         /\ fast = [i \in 1..n |-> ReturnFalse(QueuedAttempt)]
         /\ slow = [i \in 1..n |-> NewAttempt]
         /\ hist_fast = [i \in 1..n |-> <<>>]
         /\ hist_slow = [i \in 1..n |-> <<>>]
         /\ collected = 1..n
         /\ fast_failures = [i \in 1..n |-> i]
    /\ files = [k \in Keys |-> "absent"] /\ files0 = files
    /\ tracing = FALSE
    /\ pc = "Import"
    /\ fast_success = 0
    /\ pool = "none" /\ workers = <<>> /\ chunks = <<>> /\ results = <<>> /\ outbox = <<>>
    /\ selenium_success = 0 /\ total_success = -1

\* Lines 42-64 at import: CPUS and MAX_WORKERS get their values; run() then
\* comes to line 374 with the failures of the fast path.
ImportModule ==
    /\ pc = "Import"
    /\ cfg' = [cfg EXCEPT !.max_workers = MaxWorkers(cfg.env_max_workers, cfg.cpu_count)]
    /\ pc' = "SlowPass"
    /\ UNCHANGED <<avars, xvars, mvars, tasks, files, files0, tracing, hist_fast, hist_slow, fast,
                   collected, fast_failures, fast_success, slow, pool, workers, chunks,
                   results, outbox, selenium_success, total_success>>

NextWorkers ==
    \/ ImportModule
    \/ StartPool

SpecWorkers == InitWorkers /\ [][NextWorkers]_vars

----------------------------------------------------------------------------
(* fetch_products_map.run, and the load of its file by download_images.run *)

MaxPages == 2
MaxProducts == 2

\* A product record of the API: produto_id and codigo_erp, each Optional[str]
\* (None when the key is missing, "" when it is empty).
Str(tok) == Some(<<tok>>)
ApiProducts ==
    [produto_id : {None, Str("101"), Str("102")},
     codigo_erp : {None, Some(EmptyStr), Str("A10"), Str("B20")}]

\* What fetch_products_order returns: None on a request error, else the list.
ApiProductLists == UNION {[1..n -> ApiProducts] : n \in 0..MaxProducts}
OrderResults == {None} \cup {Some(l) : l \in ApiProductLists}

\* What fetch_orders_page gives: an error (raised), or the page: page_count
\* and whether the page's order carries a 'codigo'.
OrderPages ==
    {[ok |-> FALSE, page_count |-> 1, has_codigo |-> FALSE]}
    \cup [ok : {TRUE}, page_count : 1..MaxPages, has_codigo : BOOLEAN]

\* product_map[produto_id] = codigo_erp on a dict kept in insertion order.
MapPut(m, k, v) ==
    IF \E n \in 1..Len(m) : m[n][1] = k
    THEN [n \in 1..Len(m) |-> IF m[n][1] = k THEN <<k, v>> ELSE m[n]]
    ELSE Append(m, <<k, v>>)

\* Lines 94-98: the products of one order, from position n on.
RECURSIVE Aggregate(_, _, _)
Aggregate(m, list, n) ==
    IF n > Len(list) THEN m
    ELSE IF Truthy(list[n].produto_id) /\ Truthy(list[n].codigo_erp)
    THEN Aggregate(MapPut(m, list[n].produto_id[1][1], list[n].codigo_erp[1][1]), list, n + 1)
    ELSE Aggregate(m, list, n + 1)

\* Mutant of OrdersError: the failed page is passed over and the products
\* are fetched.
OrdersErrorGoOn == "products"

\* Lines 81-83: the except clause of the order-page loop returns from run().
OrdersError == "aborted"

\* Lines 66-83: one turn of the order-page loop.
FetchOrdersPage ==
    /\ mpc = "orders"
    /\ current_page <= total_pages
    /\ \E page \in OrderPages :
         IF ~page.ok
         THEN /\ mpc' = OrdersError
              /\ UNCHANGED <<current_page, total_pages, all_order_codes>>
         ELSE /\ total_pages' = IF current_page = 1 THEN page.page_count ELSE total_pages
              /\ all_order_codes' = IF page.has_codigo
                                    THEN Append(all_order_codes, current_page)
                                    ELSE all_order_codes
              /\ current_page' = current_page + 1
              /\ mpc' = mpc
    /\ UNCHANGED <<avars, xvars, pvars, pending, product_map, map_file>>

\* Lines 85-91: the loop is left; the pool maps fetch_products_order over
\* all_order_codes.
StartProducts ==
    /\ mpc = "orders"
    /\ current_page > total_pages
    /\ mpc' = "products"
    /\ product_map' = <<>>
    /\ pending' = 1..Len(all_order_codes)
    /\ UNCHANGED <<avars, xvars, pvars, current_page, total_pages, all_order_codes, map_file>>

\* Lines 92-99: imap_unordered yields the product list of some order.
ReceiveProducts(o) ==
    /\ mpc = "products"
    /\ o \in pending
    /\ pending' = pending \ {o}
    /\ \E r \in OrderResults :
         product_map' = IF r # None /\ r[1] # <<>>
                        THEN Aggregate(product_map, r[1], 1)
                        ELSE product_map
    /\ UNCHANGED <<avars, xvars, pvars, mpc, current_page, total_pages, all_order_codes, map_file>>

\* save_to_file, lines 45-50: open(filename, 'w') fails and the file is as
\* it was; or it truncates the file and json.dump (or the flush at the end
\* of the with block) fails, which leaves part of the text; or the whole
\* text is written. `except IOError` catches both failures.
SaveOutcomes == {"open_error", "write_error", "written"}
save_to_file(file, map, outcome) ==
    CASE outcome = "open_error" -> file
      [] outcome = "write_error" -> CutFile
      [] outcome = "written" -> JsonFile(map)

\* Lines 101-104: run() ends with the call of save_to_file.
SaveToFile ==
    /\ mpc = "products"
    /\ pending = {}
    /\ \E outcome \in SaveOutcomes :
         /\ map_file' = save_to_file(map_file, product_map, outcome)
         /\ mpc' = IF outcome = "written" THEN "saved" ELSE "failed"
    /\ UNCHANGED <<avars, xvars, pvars, current_page, total_pages, all_order_codes, pending,
                   product_map>>

\* json.load of the map and list(product_map.items())
LoadedTasks(file) == file.map

\* open() and json.load, lines 317-319: FileNotFoundError without a file,
\* JSONDecodeError for a file that holds less than a JSON text.
Loadable(file) == file.st = "json"

\* main(), lines 10-12, and download_images.run, lines 317-320: whatever way
\* fetch_products_map.run ended (the map saved, the save failed, or an order
\* page failed), download_images.run is called next and loads the file that
\* is there, or is left by the exception of open() or json.load.
LoadTasks ==
    /\ mpc \in {"saved", "failed", "aborted"}
    /\ IF Loadable(map_file)
       THEN tasks' = LoadedTasks(map_file) /\ mpc' = "loaded"
       ELSE tasks' = tasks /\ mpc' = "load_error"
    /\ UNCHANGED <<avars, xvars, cfg, files, files0, tracing, hist_fast, hist_slow, pc, fast,
                   collected, fast_failures, fast_success, slow, pool, workers, chunks,
                   results, outbox, selenium_success, total_success, current_page, total_pages,
                   all_order_codes, pending, product_map, map_file>>

\* A product map left at PRODUCT_MAP_PATH by an earlier run.
OldMap == <<<<"101", "A10">>>>

\* run() is started with the file absent or left by an earlier run.
MapInit ==
    /\ ExtractorIdle
    /\ PipelineIdle
    /\ ApiIdle
    /\ mpc = "orders" /\ current_page = 1 /\ total_pages = 1 /\ all_order_codes = <<>>
    /\ pending = {} /\ product_map = <<>> /\ map_file \in {NoFile, JsonFile(OldMap)}

MapNext ==
    \/ FetchOrdersPage
    \/ StartProducts
    \/ \E o \in 1..MaxPages : ReceiveProducts(o)
    \/ SaveToFile
    \/ LoadTasks

SpecMap == MapInit /\ [][MapNext]_vars

----------------------------------------------------------------------------
(* download_images_api: get_best_image_url *)

MaxImages == 3
PREFERRED_IMAGE_SIZE == 250

\* An entry of imagemUrls: 'tamanho' (a number, None when the key is
\* missing) and 'localizacao' (Optional[str], None when the key is missing).
ImageEntry(tamanho, localizacao) == [tamanho |-> tamanho, localizacao |-> localizacao]

\* lambda x: x.get('tamanho', 0), line 89.
SizeKey(img) == IF img.tamanho = None THEN 0 ELSE img.tamanho[1]

\* sorted(..., reverse=True) is stable: x goes behind every element whose key
\* is at least its own.
RECURSIVE InsertDesc(_, _)
InsertDesc(sorted, x) ==
    IF sorted = <<>> THEN <<x>>
    ELSE IF SizeKey(Head(sorted)) >= SizeKey(x)
    THEN <<Head(sorted)>> \o InsertDesc(Tail(sorted), x)
    ELSE <<x>> \o sorted

RECURSIVE SortedDesc(_)
SortedDesc(imgs) ==
    IF imgs = <<>> THEN <<>>
    ELSE InsertDesc(SortedDesc(SubSeq(imgs, 1, Len(imgs) - 1)), imgs[Len(imgs)])

\* Mutant of get_best_image_url: the preferred size is not looked for.
get_best_image_url_largest(imgs) ==
    IF imgs = <<>> THEN None ELSE SortedDesc(imgs)[1].localizacao

\* get_best_image_url, lines 75-93.
get_best_image_url(imgs) ==
    IF imgs = <<>> THEN None
    ELSE IF \E n \in 1..Len(imgs) : imgs[n].tamanho = Some(PREFERRED_IMAGE_SIZE)
    THEN LET first == CHOOSE n \in 1..Len(imgs) :
                          /\ imgs[n].tamanho = Some(PREFERRED_IMAGE_SIZE)
                          /\ \A m \in 1..(n - 1) : imgs[m].tamanho # Some(PREFERRED_IMAGE_SIZE)
         IN imgs[first].localizacao
    ELSE SortedDesc(imgs)[1].localizacao

\* The imagemUrls lists the function is applied to.
ImageSizes == {None, Some(100), Some(PREFERRED_IMAGE_SIZE), Some(500)}
ImageLocations == {None, Some(UrlPlain), Some(UrlPlain2)}
ImageEntries == {ImageEntry(t, l) : t \in ImageSizes, l \in ImageLocations}
ImageLists == UNION {[1..n -> ImageEntries] : n \in 0..MaxImages}

BestInit ==
    /\ ExtractorIdle
    /\ PipelineIdle
    /\ MapIdle
    /\ api_pc = "best_in"
    /\ image_urls \in ImageLists
    /\ best_url = None
    /\ api_page = 1 /\ api_total_pages = 1 /\ download_tasks = <<>>
    /\ fetched = <<>> /\ api_workers = 0
    /\ api_attempts = <<>> /\ api_results = <<>> /\ api_outbox = <<>>
    /\ api_summary = <<>>

BestImage ==
    /\ api_pc = "best_in"
    /\ best_url' = get_best_image_url(image_urls)
    /\ api_pc' = "best_out"
    /\ UNCHANGED <<xvars, pvars, mvars, image_urls, api_page, api_total_pages,
                   download_tasks, fetched, api_workers, api_attempts, api_results, api_outbox,
                   api_summary>>

SpecBest == BestInit /\ [][BestImage]_vars

----------------------------------------------------------------------------
(* download_images_api: collect_all_products and run *)

MaxApiPages == 3
ApiMaxWorkers == 8
ApiChunkSize == 10

\* A product of the API: 'codigo_erp' (Optional[str]) and 'imagemUrls'.
ApiProduct(codigo_erp, imagemUrls) == [codigo_erp |-> codigo_erp, imagemUrls |-> imagemUrls]

ImgPreferred == <<ImageEntry(Some(PREFERRED_IMAGE_SIZE), Some(UrlPlain))>>
ImgTwoSizes == <<ImageEntry(Some(100), Some(UrlPlain)), ImageEntry(Some(500), Some(UrlPlain2))>>
ImgNoLocation == <<ImageEntry(Some(100), None)>>
ImgEmptyLocation == <<ImageEntry(Some(500), Some(EmptyStr))>>

\* The 'data' of a page: no product; a product with codigo_erp and image; a
\* product without codigo_erp; one with an empty codigo_erp; one without
\* images followed by one with two sizes; one whose best image has no
\* location; one whose best image has an empty location.
ApiPageData ==
    {<<>>,
     <<ApiProduct(Str("A10"), ImgPreferred)>>,
     <<ApiProduct(None, ImgPreferred)>>,
     <<ApiProduct(Some(EmptyStr), ImgTwoSizes)>>,
     <<ApiProduct(Str("A10"), <<>>), ApiProduct(Str("B20"), ImgTwoSizes)>>,
     <<ApiProduct(Str("B20"), ImgNoLocation)>>,
     <<ApiProduct(Str("B20"), ImgEmptyLocation)>>}

\* What fetch_products_page returns: None (lines 70-72) or the JSON body:
\* 'success', pagination.page_count (None when missing) and 'data'.
ApiPages(counts) ==
    {None} \cup {Some([success |-> ok, page_count |-> n, data |-> d]) :
                    ok \in BOOLEAN, n \in counts, d \in ApiPageData}

\* `not page or not page.get('success')`, lines 138 and 164.
PageFailed(r) == r = None \/ ~r[1].success

\* pagination.get('page_count', 1), line 143.
PageCount(r) == IF r[1].page_count = None THEN 1 ELSE r[1].page_count[1]

\* Lines 151-158 and 168-175: the tasks of the products of one page, from
\* position n on.
RECURSIVE PageTasks(_, _)
PageTasks(data, n) ==
    IF n > Len(data) THEN <<>>
    ELSE LET p == data[n]
             best == get_best_image_url(p.imagemUrls)
         IN (IF Truthy(p.codigo_erp) /\ p.imagemUrls # <<>> /\ Truthy(best)
             THEN <<<<p.codigo_erp[1], best[1]>>>>
             ELSE <<>>) \o PageTasks(data, n + 1)

\* Mutant of AfterFailedPage: the loop is left at the first failed page.
AfterFailedPageStop(p, total) == total + 1

\* Lines 164-166: `continue`, the loop goes on with the next page.
AfterFailedPage(p, total) == p + 1

\* run() is started, with each <codigo_erp>.jpg absent or left by an
\* earlier run.
CollectInit ==
    /\ ExtractorIdle
    /\ PipelineOff
    /\ files \in [Keys -> {"absent", "old"}] /\ files0 = files
    /\ MapIdle
    /\ api_pc = "first" /\ image_urls = <<>> /\ best_url = None
    /\ api_page = 1 /\ api_total_pages = 1 /\ download_tasks = <<>>
    /\ fetched = <<>> /\ api_workers = 0
    /\ api_attempts = <<>> /\ api_results = <<>> /\ api_outbox = <<>>
    /\ api_summary = <<>>

\* collect_all_products, lines 137-158: page 1.
FetchFirstPage ==
    /\ api_pc = "first"
    /\ \E r \in ApiPages({None} \cup {Some(n) : n \in 1..MaxApiPages}) :
         /\ fetched' = Append(fetched, [page |-> 1, resp |-> r])
         /\ IF PageFailed(r)
            THEN /\ api_pc' = "collected"
                 /\ UNCHANGED <<api_page, api_total_pages, download_tasks>>
            ELSE /\ api_total_pages' = PageCount(r)
                 /\ download_tasks' = PageTasks(r[1].data, 1)
                 /\ api_page' = 2
                 /\ api_pc' = "pages"
    /\ UNCHANGED <<xvars, pvars, mvars, image_urls, best_url, api_workers, api_attempts,
                   api_results, api_outbox, api_summary>>

\* collect_all_products, lines 161-175: one turn of the loop over the
\* remaining pages (each answers with the page_count page 1 gave).
FetchNextPage ==
    /\ api_pc = "pages"
    /\ api_page <= api_total_pages
    /\ \E r \in ApiPages({Some(api_total_pages)}) :
         /\ fetched' = Append(fetched, [page |-> api_page, resp |-> r])
         /\ IF PageFailed(r)
            THEN /\ api_page' = AfterFailedPage(api_page, api_total_pages)
                 /\ UNCHANGED download_tasks
            ELSE /\ api_page' = api_page + 1
                 /\ download_tasks' = download_tasks \o PageTasks(r[1].data, 1)
    /\ UNCHANGED <<xvars, pvars, mvars, api_pc, image_urls, best_url, api_total_pages,
                   api_workers, api_attempts, api_results, api_outbox, api_summary>>

\* collect_all_products, lines 177-178: the loop is over.
FinishCollect ==
    /\ api_pc = "pages"
    /\ api_page > api_total_pages
    /\ api_pc' = "collected"
    /\ UNCHANGED <<xvars, pvars, mvars, image_urls, best_url, api_page, api_total_pages,
                   download_tasks, fetched, api_workers, api_attempts, api_results, api_outbox,
                   api_summary>>

\* A download task before a worker has come to it.
ApiQueued == [st |-> "queued", res |-> FALSE]

\* run, lines 191-205: without tasks run() returns; else the Pool of
\* MAX_WORKERS processes is started (init_worker gives each its session) and
\* download_tasks is handed to imap_unordered.
ApiStartPool ==
    /\ api_pc = "collected"
    /\ IF download_tasks = <<>>
       THEN api_pc' = "no_tasks" /\ api_workers' = api_workers
       ELSE api_pc' = "pool" /\ api_workers' = ApiMaxWorkers
    /\ api_attempts' = [i \in 1..Len(download_tasks) |-> ApiQueued]
    /\ api_results' = <<>>
    /\ api_outbox' = <<>>
    /\ UNCHANGED <<xvars, pvars, mvars, image_urls, best_url, api_page, api_total_pages,
                   download_tasks, fetched, api_summary>>

ApiIds == 1..Len(download_tasks)

\* Pool._get_tasks with chunksize=10 (line 205): the chunk a task is in. A
\* chunk is run by one worker process, task after task (mapstar).
ApiChunkOf(i) == (i - 1) \div ApiChunkSize + 1
ApiChunkIds(c) == {i \in ApiIds : ApiChunkOf(i) = c}

\* A worker process has taken chunk c and has not yet sent its results.
ApiChunkTaken(c) == \E i \in ApiChunkIds(c) : api_attempts[i].st \notin {"queued", "sent"}

\* The chunk is still in the pool's task queue.
ApiChunkWaiting(c) == \A i \in ApiChunkIds(c) : api_attempts[i].st = "queued"

\* output_path = RAW_IMAGES_DIR/<codigo_erp>.jpg, line 107.
ApiOutputPath(task) == task[1][1]

\* multiprocessing worker loop: a process that is at no chunk takes the next
\* chunk of the task queue, the chunks leaving the queue in order.
ApiWorkerTake(c) ==
    /\ api_pc = "pool"
    /\ ApiChunkIds(c) # {}
    /\ ApiChunkWaiting(c)
    /\ \A b \in 1..(c - 1) : ~ApiChunkWaiting(b)
    /\ Cardinality({b \in 1..c : ApiChunkTaken(b)}) < api_workers
    /\ api_attempts' = [i \in ApiIds |->
           IF i \in ApiChunkIds(c) THEN [api_attempts[i] EXCEPT !.st = "taken"]
           ELSE api_attempts[i]]
    /\ UNCHANGED <<xvars, pvars, mvars, api_pc, image_urls, best_url, api_page,
                   api_total_pages, download_tasks, fetched, api_workers, api_results,
                   api_outbox, api_summary>>

\* download_image_worker, lines 105-111: the process that has the chunk
\* comes to the task, the first of the chunk or the one after the task it
\* has returned from (mapstar), and tests whether the file exists.
ApiWorkerBegin(i) ==
    /\ api_pc = "pool"
    /\ api_attempts[i].st = "taken"
    /\ i - 1 \in ApiChunkIds(ApiChunkOf(i)) => api_attempts[i - 1].st = "done"
    /\ api_attempts' = [api_attempts EXCEPT ![i] =
            IF PathExists(files, ApiOutputPath(download_tasks[i]))
            THEN [st |-> "done", res |-> TRUE]
            ELSE [st |-> "get", res |-> FALSE]]
    /\ UNCHANGED <<xvars, pvars, mvars, api_pc, image_urls, best_url, api_page,
                   api_total_pages, download_tasks, fetched, api_workers, api_results,
                   api_outbox, api_summary>>

\* download_image_worker, lines 113-118 and 123-125: the image is fetched
\* (an exception of sess.get or raise_for_status is caught: False) and the
\* output file is opened for writing (created or truncated), or open()
\* raises, which is caught: False.
ApiWorkerGet(i) ==
    /\ api_pc = "pool"
    /\ api_attempts[i].st = "get"
    /\ \E got \in BOOLEAN, ok \in BOOLEAN :
         /\ files' = IF got THEN OpenFile(files, ApiOutputPath(download_tasks[i]), ok)
                      ELSE files
         /\ api_attempts' = [api_attempts EXCEPT ![i] =
                 IF got /\ ok THEN [st |-> "write", res |-> FALSE]
                 ELSE [st |-> "done", res |-> FALSE]]
    /\ UNCHANGED <<xvars, mvars, cfg, tasks, files0, tracing, hist_fast, hist_slow, pc, fast,
                   collected, fast_failures, fast_success, slow, pool, workers, chunks,
                   results, outbox, selenium_success, total_success,
                   api_pc, image_urls, best_url, api_page, api_total_pages,
                   download_tasks, fetched, api_workers, api_results, api_outbox, api_summary>>

\* download_image_worker, lines 119-125: f.write(response.content) writes
\* everything (True), or raises after part of it, which is caught (False).
ApiWorkerWrite(i) ==
    /\ api_pc = "pool"
    /\ api_attempts[i].st = "write"
    /\ \E ok \in BOOLEAN :
         /\ files' = WriteFile(files, ApiOutputPath(download_tasks[i]), ok)
         /\ api_attempts' = [api_attempts EXCEPT ![i] = [st |-> "done", res |-> ok]]
    /\ UNCHANGED <<xvars, mvars, cfg, tasks, files0, tracing, hist_fast, hist_slow, pc, fast,
                   collected, fast_failures, fast_success, slow, pool, workers, chunks,
                   results, outbox, selenium_success, total_success,
                   api_pc, image_urls, best_url, api_page, api_total_pages,
                   download_tasks, fetched, api_workers, api_results, api_outbox, api_summary>>

\* The results of the tasks from..to, in order.
RECURSIVE ApiChunkResults(_, _)
ApiChunkResults(from, to) ==
    IF from > to THEN <<>>
    ELSE <<api_attempts[from].res>> \o ApiChunkResults(from + 1, to)

\* multiprocessing worker loop: the process puts the results of its
\* finished chunk on the result queue and is free for the next chunk.
ApiWorkerReturn(c) ==
    /\ api_pc = "pool"
    /\ ApiChunkIds(c) # {}
    /\ \A i \in ApiChunkIds(c) : api_attempts[i].st = "done"
    /\ api_outbox' = api_outbox \o
           ApiChunkResults((c - 1) * ApiChunkSize + 1, Min(c * ApiChunkSize, Len(download_tasks)))
    /\ api_attempts' = [i \in ApiIds |->
           IF i \in ApiChunkIds(c) THEN [api_attempts[i] EXCEPT !.st = "sent"]
           ELSE api_attempts[i]]
    /\ UNCHANGED <<xvars, pvars, mvars, api_pc, image_urls, best_url, api_page,
                   api_total_pages, download_tasks, fetched, api_workers, api_results,
                   api_summary>>

\* Lines 205-207: the for statement takes the next result the iterator has
\* and run() appends it.
ApiAppend ==
    /\ api_pc = "pool"
    /\ api_outbox # <<>>
    /\ api_results' = Append(api_results, Head(api_outbox))
    /\ api_outbox' = Tail(api_outbox)
    /\ UNCHANGED <<xvars, pvars, mvars, api_pc, image_urls, best_url, api_page,
                   api_total_pages, download_tasks, fetched, api_workers, api_attempts,
                   api_summary>>

\* Lines 209-218: every result has arrived, the with block is left and the
\* summary is printed: success_count and failed_count.
ApiFinish ==
    /\ api_pc = "pool"
    /\ Len(api_results) = Len(download_tasks)
    /\ api_summary' = <<CountTrue(api_results), Len(api_results) - CountTrue(api_results)>>
    /\ api_pc' = "done"
    /\ UNCHANGED <<xvars, pvars, mvars, image_urls, best_url, api_page, api_total_pages,
                   download_tasks, fetched, api_workers, api_attempts, api_results, api_outbox>>

CollectNext ==
    \/ FetchFirstPage
    \/ FetchNextPage
    \/ FinishCollect
    \/ ApiStartPool
    \/ \E i \in ApiIds : ApiWorkerTake(ApiChunkOf(i))
    \/ \E i \in ApiIds : ApiWorkerBegin(i)
    \/ \E i \in ApiIds : ApiWorkerGet(i)
    \/ \E i \in ApiIds : ApiWorkerWrite(i)
    \/ \E i \in ApiIds : ApiWorkerReturn(ApiChunkOf(i))
    \/ ApiAppend
    \/ ApiFinish

SpecCollect == CollectInit /\ [][CollectNext]_vars

----------------------------------------------------------------------------
(* Claims *)

KeyOf(i) == OutputPath(tasks[i])
FastOk == {i \in TaskIds : AttemptOk(fast[i])}
FastFailed == {i \in TaskIds : fast[i].res = "failed"}
SlowGiven == {i \in TaskIds : slow[i].st # "new"}
SlowOk == {i \in TaskIds : AttemptOk(slow[i])}
\* The task indexes the pool holds: in the queue or with a worker.
Queued ==
    UNION {{chunks[n][m] : m \in 1..Len(chunks[n])} : n \in 1..Len(chunks)}
Held ==
    UNION {{workers[w].chunk[m] : m \in 1..Len(workers[w].chunk)} : w \in DOMAIN workers}

\* C1: the browser stage receives nothing before the hand-over and then
\* exactly the tasks whose fast-path attempt failed (the complement of the
\* fast-path successes), each once, in one step; fast_failures holds exactly
\* those tasks once the fast path is over; every task the stage received is
\* in the pool's queue, with a worker, or done (as long as no worker has
\* sent an exception for its chunk); and at Done the success count is the
\* number of fast-path successes plus the number of browser-stage
\* successes, no task being a success of both.
C1_Handoff ==
    /\ SlowGiven \in {{}, FastFailed}
    /\ pool = "none" => SlowGiven = {}
    /\ HandedOver =>
         /\ pool # "none"
         /\ SlowGiven = FastFailed
         /\ SlowGiven = TaskIds \ FastOk
    /\ pool = "terminated" => SlowGiven = FastFailed /\ SlowGiven # {}
    /\ pc \in {"SlowPass", "Done", "Crashed"} =>
         /\ {fast_failures[n] : n \in 1..Len(fast_failures)} = FastFailed
         /\ Len(fast_failures) = Cardinality(FastFailed)
         /\ FastFailed = TaskIds \ FastOk
    /\ pool = "running" /\ ~ExceptionSent =>
         \A i \in SlowGiven : slow[i].st = "done" \/ i \in Queued \cup Held
    /\ pc = "Done" =>
         /\ total_success = Cardinality(FastOk) + Cardinality(SlowOk)
         /\ FastOk \cap SlowOk = {}
         /\ fast_success = Cardinality(FastOk)
         /\ selenium_success = Cardinality(SlowOk)

\* C1 witness: the fast path resolved one task, failed another, and the
\* browser stage saved the one that failed.
C1_Witness ==
    /\ pc = "Done"
    /\ \E i, j \in TaskIds :
         /\ fast[i].res = "saved" /\ slow[i].st = "new"
         /\ fast[j].res = "failed" /\ slow[j].res = "saved"
    /\ total_success = 2

\* C2: a file that was present when the run started is never changed; a
\* task whose output file was present then is reported as success by the
\* stage that attempts it; and an attempt reported AlreadyPresent has fetched
\* no candidate and written nothing.
C2_Idempotent ==
    /\ \A k \in Keys : files0[k] # "absent" => files[k] = files0[k]
    /\ \A i \in TaskIds :
         /\ files0[KeyOf(i)] # "absent" /\ fast[i].st \notin {"new", "queued"}
              => fast[i].st = "done" /\ fast[i].res = "present" /\ slow[i].st = "new"
         /\ fast[i].res = "present" => fast[i].c = 0 /\ ~fast[i].wrote
         /\ slow[i].res = "present" => slow[i].c = 0 /\ ~slow[i].wrote

\* C2 witness: at Done a file of the earlier run is as it was and its task
\* is a success, while a file that was missing has been created.
C2_Witness ==
    /\ pc = "Done"
    /\ \E i, j \in TaskIds :
         /\ files0[KeyOf(i)] = "old" /\ files[KeyOf(i)] = "old" /\ fast[i].res = "present"
         /\ files0[KeyOf(j)] = "absent" /\ files[KeyOf(j)] = "full" /\ fast[j].res = "saved"

\* Some attempt has the file of key k open for writing.
WriteUnderWay(k) ==
    \E i \in TaskIds : KeyOf(i) = k /\ (fast[i].st = "write" \/ slow[i].st = "write")

\* C3: a file that exists at an output path holds the complete bytes of a
\* download (or is a file of an earlier run); a write that failed leaves no
\* file. Stated for the states in which no write to the file is under way,
\* which the claim covers with every other reachable state.
C3_AtomicWrite ==
    \A k \in Keys : WriteUnderWay(k) \/ files[k] \in {"absent", "old", "full"}

\* C4: of two attempts of one stage for tasks with the same storage_key, at
\* most one calls f.write on <storage_key>.jpg.
C4_SingleWriter ==
    \A i, j \in TaskIds :
        i # j /\ KeyOf(i) = KeyOf(j) =>
            /\ ~(fast[i].wrote /\ fast[j].wrote)
            /\ ~(slow[i].wrote /\ slow[j].wrote)

\* C5: the task list download_images.run loads from the map written by
\* fetch_products_map.run has no two tasks with the same storage_key.
C5_UniqueStorageKeys ==
    mpc = "loaded" =>
        \A i, j \in 1..Len(tasks) : i # j => tasks[i][2] # tasks[j][2]

\* The state of a task in the spec's terms, from an attempt of it.
StateOf(a) ==
    IF a.st \in {"new", "queued"} THEN "Pending"
    ELSE IF a.st = "done"
    THEN (IF a.res = "present" THEN "AlreadyPresent"
          ELSE IF a.res = "saved" THEN "Saved" ELSE "Failed")
    ELSE "Resolving"

Terminal == {"AlreadyPresent", "Saved", "Failed"}

\* The state of a task in the run: that of its latest attempt.
TaskState(f, s) == IF s.st = "new" THEN StateOf(f) ELSE StateOf(s)

\* C6 as stated: once a task has reached AlreadyPresent, Saved or Failed it
\* stays there for the rest of the run.
C6_TerminalFinal ==
    [][\A i \in TaskIds :
          TaskState(fast[i], slow[i]) \in Terminal
              => TaskState(fast'[i], slow'[i]) = TaskState(fast[i], slow[i])]_vars

\* One step of one attempt: a terminal state is kept, and an attempt that is
\* resolving does not go back to pending.
StageStep(a, b) ==
    /\ StateOf(a) \in Terminal => b = a
    /\ StateOf(a) = "Resolving" => StateOf(b) # "Pending"

\* C6 as amended: within each stage a task moves Pending -> Resolving -> one
\* terminal state, which is final for that stage; AlreadyPresent and Saved
\* are final for the run; only a task that Failed in the fast path is given
\* to the browser stage, which resolves it once more, and its fast-path
\* state is kept from then on.
C6_StageFinal ==
    [][\A i \in TaskIds :
          /\ StageStep(fast[i], fast'[i])
          /\ StageStep(slow[i], slow'[i])
          /\ StateOf(fast[i]) \in {"AlreadyPresent", "Saved"} => slow'[i].st = "new"
          /\ slow'[i].st # "new" => StateOf(fast[i]) = "Failed" /\ fast'[i] = fast[i]]_vars

\* C6 witness: at Done one task was saved by the fast path and never given
\* to the browser stage, another failed in the fast path and was resolved
\* again by the browser stage.
C6_Witness ==
    /\ pc = "Done"
    /\ \E i, j \in TaskIds :
         /\ StateOf(fast[i]) = "Saved" /\ slow[i].st = "new"
         /\ StateOf(fast[j]) = "Failed" /\ StateOf(slow[j]) \in Terminal

\* Done and Crashed are the two ends of run().
PcOrder == <<"Init", "FastPass", "SlowPass", "Done">>
PcRank(p) == IF p = "Crashed" THEN Len(PcOrder) ELSE CHOOSE n \in 1..Len(PcOrder) : PcOrder[n] = p

\* What C7 says of one state: nothing of the browser stage (pool, worker,
\* attempt) exists before every fast-path attempt is done and its result
\* collected, and no fast-path attempt runs while a browser-stage attempt runs.
NoOverlap ==
    /\ pc \in {"Init", "FastPass"} =>
         /\ pool = "none" /\ workers = <<>> /\ chunks = <<>>
         /\ \A i \in TaskIds : slow[i].st = "new"
    /\ pc = "Init" => \A i \in TaskIds : fast[i].st = "new"
    /\ pc \in {"SlowPass", "Done", "Crashed"} =>
         \A i \in TaskIds : fast[i].st = "done" /\ i \in collected
    /\ (pool # "none" \/ workers # <<>> \/ \E i \in TaskIds : slow[i].st # "new") =>
         /\ pc \in {"SlowPass", "Done", "Crashed"}
         /\ \A i \in TaskIds : fast[i].st = "done" /\ i \in collected
    /\ \A i, j \in TaskIds : ~(Running(fast[i]) /\ Running(slow[j]))
    /\ pc = "Done" => \A i \in TaskIds : ~Running(fast[i]) /\ ~Running(slow[i])

\* C7: the orchestrator goes through Init, FastPass, SlowPass, Done in that
\* order, one position at a time; no browser-stage worker is started and no
\* browser-stage attempt begins before every fast-path attempt has completed
\* and been collected; no task is attempted by both stages at the same time.
C7_NoOverlap ==
    /\ NoOverlap
    /\ [][/\ pc' # pc => PcRank(pc') = PcRank(pc) + 1
          /\ NoOverlap']_vars

\* C7 witness: two tasks failed in the fast path and both are being
\* resolved by browser-stage workers.
C7_Witness ==
    /\ pc = "SlowPass"
    /\ \E i, j \in TaskIds : i # j /\ Running(slow[i]) /\ Running(slow[j])

\* C8: a fast-path attempt whose first candidate URL gave a non-200 status
\* or a transport error goes on to the second candidate URL, and when that
\* one gives an image that is downloaded and written, the task is reported
\* as success, at the second candidate, with the file complete.
C8_CandidateFallback ==
    \A i \in TaskIds :
        LET h == hist_fast[i]
        IN Len(h) >= 1 /\ h[1].out \in {"non200", "error"} =>
             /\ Len(h) = 1 => Running(fast[i]) /\ fast[i].c = 2
             /\ fast[i].st = "done" => Len(h) = 2
             /\ Len(h) = 2 /\ h[2].out = "saved" =>
                  /\ fast[i].st = "done" /\ fast[i].res = "saved" /\ fast[i].c = 2
                  /\ files[KeyOf(i)] = "full"
                  /\ i \in collected => fast_failures = <<>>

\* C8 witness: first candidate 404, second candidate saved.
C8_Witness ==
    \E i \in TaskIds :
        /\ hist_fast[i] = <<Event("requests", "non200"), Event("requests", "saved")>>
        /\ fast[i].res = "saved"
        /\ pc = "Done" /\ total_success = 1

\* C9: the result is that of the first strategy, in the order og:image,
\* vip-image tag, selectors, heuristic scan, that gives a URL; an og:image
\* tag with non-empty content decides, whatever the document holds besides.
C9_ExtractorPriority ==
    xpc = "requests" /\ html.kind = "http" /\ html.status = 200 =>
        LET d == html.doc
        IN /\ d.og.present /\ Truthy(d.og.content) => image_url = d.og.content
           /\ ~(d.og.present /\ Truthy(d.og.content)) /\ VipStep(d) # None
                => image_url = VipStep(d)
           /\ ~(d.og.present /\ Truthy(d.og.content)) /\ VipStep(d) = None
                /\ SelectorStep(d) # None
                => image_url = SelectorStep(d)
           /\ ~(d.og.present /\ Truthy(d.og.content)) /\ VipStep(d) = None
                /\ SelectorStep(d) = None
                => image_url = HeuristicStep(d)

\* C9 witness: og:image with content beside a vendor tag holding the
\* placeholder; the og:image URL is returned.
C9_Witness ==
    /\ xpc = "requests"
    /\ html = HttpResponse(200, Doc(Og(Some(UrlOg)),
                  <<VipImage({"m-auto"}, <<Img({}, Some(UrlDefault), None)>>)>>))
    /\ image_url = Some(UrlOg)

\* Every image URL a document holds: og:image content and the src and
\* data-src of every img.
UrlsOf(doc) ==
    LET imgs == FlattenImgs(doc.body)
        attrs == {doc.og.content} \cup {imgs[n].src : n \in 1..Len(imgs)}
                 \cup {imgs[n].dsrc : n \in 1..Len(imgs)}
    IN {a[1] : a \in {x \in attrs : Truthy(x)}}

\* C10: for a page whose image URLs all contain the placeholder sentinel
\* (default_image), the extractor returns no result.
C10_PlaceholderRejected ==
    /\ xpc = "requests" /\ html.kind = "http" /\ html.status = 200
         /\ UrlsOf(html.doc) # {}
         /\ (\A u \in UrlsOf(html.doc) : Contains(u, "default_image"))
         => image_url = None
    /\ xpc = "selenium" /\ Truthy(dom_src) /\ Contains(dom_src[1], "default_image")
         => image_url = None

\* A worker process that left through os._exit(1), and one that has its browser.
Exited(w) == workers[w].st = "exited"
Healthy(w) == workers[w].st \in {"idle", "busy"} /\ workers[w].driver
AllResultsIn == Len(results) = Len(fast_failures)

\* C11: a worker whose browser cannot be started ends alone: the step changes
\* nothing but that worker, which holds no task; a worker that takes tasks
\* has its browser; and once a worker has ended so while another has its
\* browser, every residual task still gets its result.
C11_WorkerIsolation ==
    /\ [](\A w \in DOMAIN workers :
            /\ workers[w].st \in {"starting", "exited"} => workers[w].chunk = <<>>
            /\ workers[w].st \in {"idle", "busy"} => workers[w].driver)
    /\ [][\A w \in DOMAIN workers :
            ~Exited(w) /\ w \in DOMAIN workers' /\ Exited(w)' =>
                /\ \A v \in DOMAIN workers \ {w} : workers'[v] = workers[v]
                /\ UNCHANGED <<chunks, results, outbox, slow, pool, pc, files>>]_vars
    /\ ((pool = "running" /\ \E w, v \in DOMAIN workers : Exited(w) /\ Healthy(v))
           ~> AllResultsIn)

\* C12: every run ends: run() reaches Done and prints the summary (Crashed,
\* the end by an exception of a worker task, is counted as an end here, so
\* that what is left is the run that never ends).
C12_ReachesDone == <>(pc \in {"Done", "Crashed"})

\* C13: the browser stage is run only if a task failed in the fast path and
\* chromedriver and chrome both exist, and it is run if they do; when a task
\* failed and a binary is missing, the stage is skipped: no pool, no worker,
\* no browser-stage attempt, the step to Done is open, and at Done every
\* residual task is counted as failed.
C13_SlowPassGating ==
    /\ pool # "none" \/ workers # <<>> =>
         fast_failures # <<>> /\ cfg.chromedriver /\ cfg.chrome
    /\ pc \in {"Done", "Crashed"} /\ fast_failures # <<>> /\ cfg.chromedriver /\ cfg.chrome
         => pool = "terminated"
    /\ pc \in {"SlowPass", "Done"} /\ fast_failures # <<>>
         /\ ~(cfg.chromedriver /\ cfg.chrome) =>
         /\ pool = "none" /\ workers = <<>>
         /\ \A i \in TaskIds : slow[i].st = "new"
         /\ pc = "SlowPass" => ENABLED SkipSlow /\ ~ENABLED StartPool
         /\ pc = "Done" =>
              /\ selenium_success = 0
              /\ total_success = Len(tasks) - Len(fast_failures)

\* C13 witness: a task failed in the fast path, the Chrome binary is
\* missing, and the run is at Done without a pool.
C13_Witness ==
    /\ pc = "Done" /\ fast_failures # <<>>
    /\ cfg.chromedriver /\ ~cfg.chrome
    /\ pool = "none" /\ total_success = Len(tasks) - Len(fast_failures)

\* C14: when DOMAIN_KEY is missing or empty and there are tasks to do, the
\* pipeline stops before any stage: no task is submitted to the fast path,
\* no pool and no browser worker is started, no attempt is made.
C14_AbortsWithoutDomain ==
    BaseUrl(cfg.domain_key) = EmptyStr /\ tasks # <<>> =>
        /\ pc = "Init"
        /\ \A i \in TaskIds : fast[i].st = "new" /\ slow[i].st = "new"
        /\ pool = "none" /\ workers = <<>>

\* A task with an empty product_id or an empty storage_key.
InvalidTask(task) == task[1] = "" \/ task[2] = ""

\* C15: a task with an empty product_id or storage_key is never submitted
\* to the fast path nor handed to the browser stage, and no candidate URL
\* of it is tried.
C15_InvalidRejected ==
    \A i \in TaskIds :
        InvalidTask(tasks[i]) =>
            /\ fast[i].st = "new" /\ fast[i].c = 0
            /\ slow[i].st = "new" /\ slow[i].c = 0

\* C16: whatever a task attempt comes to, no error leaves a stage: run() is
\* never left by an exception; after the fast path every task has been
\* collected and the failed ones are fast_failures; after the browser stage
\* there is one result for every task it was given, and the tally counts
\* every task but those that failed in both stages.
C16_FailureContained ==
    /\ pc # "Crashed"
    /\ \A i \in TaskIds : fast[i].res # "raised" /\ slow[i].res # "raised"
    /\ pc \in {"SlowPass", "Done"} =>
         /\ collected = TaskIds
         /\ {fast_failures[n] : n \in 1..Len(fast_failures)} = FastFailed
    /\ pool = "terminated" =>
         /\ Len(results) = Len(fast_failures)
         /\ \A i \in FastFailed : slow[i].st = "done"
         /\ total_success =
              Len(tasks) - Cardinality({i \in TaskIds : slow[i].res = "failed"})

\* C17: with an empty task list no attempt is made, nothing fails, no pool
\* and no worker is started, run() is not left by an exception; each step
\* to Done is open at once, the browser stage is not; and at Done the
\* result is 0 successes of 0 tasks.
C17_EmptyTaskList ==
    tasks = <<>> =>
        /\ pool = "none" /\ workers = <<>> /\ chunks = <<>> /\ results = <<>> /\ outbox = <<>>
        /\ fast_failures = <<>> /\ collected = {}
        /\ pc # "Crashed"
        /\ pc = "Init" => ENABLED StartFast
        /\ pc = "FastPass" => ENABLED FinishFast
        /\ pc = "SlowPass" => ENABLED SkipSlow /\ ~ENABLED StartPool
        /\ pc = "Done" =>
             total_success = 0 /\ fast_success = 0 /\ selenium_success = 0

\* C17 witness: the run of an empty task list at Done with 0/0.
C17_Witness ==
    tasks = <<>> /\ pc = "Done" /\ total_success = 0 /\ Len(tasks) = 0 /\ pool = "none"

\* C18: once the pipeline is at Done, no browser instance that a worker
\* started is still alive: every worker has quit its driver.
C18_DriversReleased ==
    pc = "Done" => \A w \in DOMAIN workers : ~workers[w].driver

\* C19: in the worker, a candidate whose browser call ended by an error (a
\* timeout, a WebDriverException, or an error of the connection to the
\* browser) does not end the attempt by an exception: after the first
\* candidate the second is tried, after the second the worker returns
\* failure, and run() is not left by an exception.
C19_BrowserErrorCaught ==
    \A i \in TaskIds :
        LET h == hist_slow[i]
        IN \A n \in 1..Len(h) :
             h[n].via = "selenium" /\ h[n].out \in {"timeout", "wderror", "othererror"} =>
                 /\ n = Len(h) => slow[i].res # "raised" /\ pc # "Crashed"
                 /\ n = 1 => Len(h) >= 2 \/ (Running(slow[i]) /\ slow[i].c = 2)
                 /\ n = 2 => slow[i].st = "done" /\ slow[i].res = "failed"
                 /\ n = 2 /\ pc = "Done" => results = <<FALSE>> /\ selenium_success = 0

\* C20 as stated: once a candidate URL has given an image URL (whose
\* download then succeeded or failed), the fast path reports the outcome
\* and fetches no further candidate.
C20_StopsAtFirstResult ==
    \A i \in TaskIds :
        LET h == hist_fast[i]
        IN \A n \in 1..Len(h) :
             h[n].out \in {"saved", "dlfail"} => n = Len(h) /\ fast[i].st = "done"

\* C20 as amended: the fast path stops at the first candidate whose image
\* was downloaded and written: success is reported at once and no further
\* candidate is fetched; a candidate whose image URL was found but whose
\* download or write failed does not stop it: the next candidate is tried,
\* and after the last one the task is reported failed.
C20_StopsAtFirstSaved ==
    \A i \in TaskIds :
        LET h == hist_fast[i]
        IN \A n \in 1..Len(h) :
             /\ h[n].out = "saved" =>
                  /\ n = Len(h)
                  /\ fast[i].st = "done" /\ fast[i].res = "saved" /\ fast[i].c = n
             /\ h[n].out = "dlfail" /\ n = 1 =>
                  Len(h) >= 2 \/ (Running(fast[i]) /\ fast[i].c = 2)
             /\ h[n].out = "dlfail" /\ n = 2 =>
                  fast[i].st = "done" /\ fast[i].res = "failed"

\* C20 witness: the first candidate gave an image URL whose download
\* failed, the second was fetched and its image saved.
C20_Witness ==
    \E i \in TaskIds :
        /\ hist_fast[i] = <<Event("requests", "dlfail"), Event("requests", "saved")>>
        /\ fast[i].res = "saved" /\ fast[i].c = 2
        /\ pc = "Done"

\* A worker process that takes tasks.
Serving(w) == workers[w].st \in {"idle", "busy"}

\* C21: a worker process that takes tasks has made exactly one browser and
\* one HTTP session; the browser it navigates is the one it started, which
\* no other process refers to; and as long as the process takes tasks, task
\* after task, its browser and its session are the same (nothing is made
\* again).
C21_SessionOwnership ==
    /\ [](\A w \in DOMAIN workers :
            /\ workers[w].inits <= 1 /\ workers[w].sessions <= 1
            /\ Serving(w) =>
                 /\ workers[w].inits = 1 /\ workers[w].sessions = 1
                 /\ workers[w].driver
                 /\ DriverOf(w) = w
                 /\ \A v \in DOMAIN workers \ {w} : DriverOf(v) # DriverOf(w))
    /\ [][\A w \in DOMAIN workers :
            Serving(w) /\ w \in DOMAIN workers' /\ workers'[w].st # "terminated" =>
                /\ workers'[w].st \in {"idle", "busy"}
                /\ workers'[w].inst = workers[w].inst
                /\ workers'[w].inits = workers[w].inits
                /\ workers'[w].sessions = workers[w].sessions]_vars

\* C21 witness: two worker processes, each with its own browser; one of
\* them has finished a task and is at the next task of its chunk, or both
\* are resolving a task at the same time.
C21_Witness ==
    /\ \E w \in DOMAIN workers :
         /\ Busy(w) /\ workers[w].inits = 1 /\ DriverOf(w) = w
         /\ slow[Current(w)].st = "cand"
         /\ \/ workers[w].out # <<>>
            \/ \E v \in DOMAIN workers \ {w} :
                 Busy(v) /\ DriverOf(v) = v /\ slow[Current(v)].st = "cand"

\* C22: whatever the CPU count and the MAX_WORKERS environment variable,
\* the browser stage never has more than 4 worker processes.
C22_AtMostFourWorkers == Len(workers) <= 4

\* The entries of the preferred size, and those of the largest size (a
\* missing size counts as 0).
Preferred(imgs) == {n \in 1..Len(imgs) : imgs[n].tamanho = Some(PREFERRED_IMAGE_SIZE)}
Largest(imgs) ==
    {n \in 1..Len(imgs) : \A m \in 1..Len(imgs) : SizeKey(imgs[m]) <= SizeKey(imgs[n])}

\* C23: get_best_image_url returns None for the empty list, the location of
\* an entry of size 250 when there is one, and else the location of an entry
\* of the largest size.
C23_BestImageUrl ==
    api_pc = "best_out" =>
        /\ image_urls = <<>> => best_url = None
        /\ Preferred(image_urls) # {} =>
             \E n \in Preferred(image_urls) : best_url = image_urls[n].localizacao
        /\ image_urls # <<>> /\ Preferred(image_urls) = {} =>
             \E n \in Largest(image_urls) : best_url = image_urls[n].localizacao

\* C23 witness: an entry of size 500 before one of size 250, with different
\* locations: the result is the location of the entry of size 250.
C23_Witness ==
    /\ api_pc = "best_out"
    /\ Len(image_urls) >= 2
    /\ image_urls[1] = ImageEntry(Some(500), Some(UrlPlain))
    /\ image_urls[2] = ImageEntry(Some(PREFERRED_IMAGE_SIZE), Some(UrlPlain2))
    /\ best_url = Some(UrlPlain2)

\* The tasks without image at the end: failed in the fast path and not made
\* good by the browser stage.
FinallyFailed == {i \in TaskIds : fast[i].res = "failed" /\ ~AttemptOk(slow[i])}

\* C24: at Done, 0 <= total_success <= total, success and failure counts
\* add up to the total, the failure count is the number of tasks that
\* ended without image, total_success is the sum of the two stages'
\* successes, and the browser stage has no more successes than it was
\* given tasks.
C24_CountsConsistent ==
    pc = "Done" =>
        LET failed == FailedCount(Len(tasks), total_success)
        IN /\ 0 <= total_success /\ total_success <= Len(tasks)
           /\ 0 <= failed /\ total_success + failed = Len(tasks)
           /\ failed = Cardinality(FinallyFailed)
           /\ total_success = fast_success + selenium_success
           /\ fast_success = Len(tasks) - Len(fast_failures)
           /\ 0 <= selenium_success /\ selenium_success <= Len(fast_failures)

\* C24 witness: of two tasks that failed in the fast path the browser stage
\* saved one and failed the other: 1/2.
C24_Witness ==
    /\ pc = "Done" /\ Len(tasks) = 2 /\ Len(fast_failures) = 2
    /\ selenium_success = 1 /\ total_success = 1
    /\ Cardinality(FinallyFailed) = 1

\* C25: after an image URL was found and its download or write failed, the
\* fast path goes on to the next candidate URL (and fails the task only
\* after the last), while the browser-stage worker reports the task failed
\* at once: the failure is the last thing in its history and no further
\* candidate is tried.
C25_DownloadFailureAsymmetry ==
    \A i \in TaskIds :
        /\ \A n \in 1..Len(hist_fast[i]) :
             hist_fast[i][n].out = "dlfail" =>
                 IF n < Len(CandidateUrls(BaseUrl(cfg.domain_key), tasks[i]))
                 THEN \/ Len(hist_fast[i]) > n
                      \/ fast[i].c = n + 1 /\ Running(fast[i])
                 ELSE fast[i].st = "done" /\ fast[i].res = "failed"
        /\ \A n \in 1..Len(hist_slow[i]) :
             hist_slow[i][n].out = "dlfail" =>
                 /\ n = Len(hist_slow[i])
                 /\ slow[i].st = "done" /\ slow[i].res = "failed" /\ slow[i].c = n

\* C25 witness: the same task met a download failure on its first candidate
\* in both stages: the fast path tried the second candidate, the worker did
\* not.
C25_Witness ==
    \E i \in TaskIds :
        /\ Len(hist_fast[i]) = 2 /\ hist_fast[i][1].out = "dlfail"
        /\ Len(hist_slow[i]) = 1 /\ hist_slow[i][1].out = "dlfail"
        /\ slow[i].c = 1 /\ slow[i].res = "failed"
        /\ pc = "Done"

\* C26: in the worker every candidate starts with the HTTP extraction;
\* the browser is called only right after an HTTP extraction of the same
\* candidate that gave no image URL, and it is called whenever that
\* happens; nothing is called after a method gave an image URL; and the
\* candidates come in order, the second only after both methods were tried
\* on the first.
C26_HttpBeforeBrowser ==
    \A i \in TaskIds :
        LET cs == slow[i].calls
        IN /\ cs # <<>> => cs[1].m = "requests" /\ cs[1].c = 1
           /\ \A k \in 1..Len(cs) :
                /\ cs[k].m = "selenium" =>
                     /\ k > 1
                     /\ cs[k - 1] = [m |-> "requests", c |-> cs[k].c, found |-> FALSE]
                /\ cs[k].m = "requests" /\ ~cs[k].found =>
                     /\ k < Len(cs)
                     /\ cs[k + 1].m = "selenium" /\ cs[k + 1].c = cs[k].c
                /\ cs[k].m = "requests" /\ k > 1 =>
                     /\ cs[k - 1].m = "selenium" /\ ~cs[k - 1].found
                     /\ cs[k].c = cs[k - 1].c + 1
                /\ cs[k].found => k = Len(cs)

\* C26 witness: on the first candidate the HTTP extraction and then the
\* browser gave nothing; on the second the HTTP extraction gave the image
\* URL, the browser was not called, and the image was saved.
C26_Witness ==
    \E i \in TaskIds :
        /\ slow[i].calls = <<[m |-> "requests", c |-> 1, found |-> FALSE],
                             [m |-> "selenium", c |-> 1, found |-> FALSE],
                             [m |-> "requests", c |-> 2, found |-> TRUE]>>
        /\ slow[i].res = "saved"

\* What the head of an attempt of task i must come to, a being the attempt
\* after the step and the files those before it.
HeadChecked(a, i) ==
    /\ PathExists(files, KeyOf(i)) =>
         a.st = "done" /\ a.res = "present" /\ a.c = 0
    /\ ~PathExists(files, KeyOf(i)) /\ BaseUrl(cfg.domain_key) = EmptyStr =>
         a.st = "done" /\ a.res = "failed" /\ a.c = 0

\* C27: in both stages the attempt of a task whose file exists ends at once
\* with success, whatever DOMAIN_KEY and the browser binaries are; that of a
\* task without file ends at once with failure when DOMAIN_KEY is empty; and
\* an attempt that ended so has made no network request: no candidate was
\* fetched, no method called, no file touched.
C27_ExistenceCheckFirst ==
    /\ [](\A i \in TaskIds :
            /\ fast[i].st = "done" /\ fast[i].c = 0 => hist_fast[i] = <<>>
            /\ slow[i].st = "done" /\ slow[i].c = 0 =>
                 hist_slow[i] = <<>> /\ slow[i].calls = <<>>
            /\ BaseUrl(cfg.domain_key) = EmptyStr => files = files0)
    /\ [][\A i \in TaskIds :
            /\ fast[i].st = "queued" /\ fast'[i].st # "queued" => HeadChecked(fast'[i], i)
            /\ slow[i].st = "queued" /\ slow'[i].st # "queued" => HeadChecked(slow'[i], i)]_vars

\* C27 witness: DOMAIN_KEY is empty, the file of the task exists, and the
\* run ends with 1/1 without a request.
C27_Witness ==
    \E i \in TaskIds :
        /\ BaseUrl(cfg.domain_key) = EmptyStr
        /\ PathExists(files0, KeyOf(i))
        /\ fast[i].res = "present" /\ hist_fast[i] = <<>>
        /\ pc = "Done" /\ total_success = 1

\* The product ids of a map.
MapKeys(m) == {m[n][1] : n \in 1..Len(m)}

\* C28: the order pages are fetched one after the other from page 1, up to
\* the page_count that page 1 gave; a page whose fetch fails ends the run at
\* once, with no product fetched and the map file as it was, and nothing of
\* this changes afterwards (main() goes on to download_images.run, which
\* only reads the file); the file is written only when every order page
\* was fetched and every order's products were asked for, with the map
\* (or, when the write fails, with part of its text); and the products of
\* an order whose fetch failed are left out without anything else being
\* lost.
C28_OrderPagesThenMap ==
    /\ [](mpc = "aborted" =>
            /\ current_page <= total_pages
            /\ pending = {} /\ product_map = <<>>)
    /\ [][/\ mpc = "aborted" =>
               UNCHANGED <<map_file, product_map, pending, current_page, total_pages,
                           all_order_codes>>
          /\ current_page' # current_page =>
               current_page' = current_page + 1 /\ current_page <= total_pages
          /\ total_pages' # total_pages => current_page = 1
          /\ mpc' = "aborted" => UNCHANGED <<map_file, product_map, pending, current_page>>
          /\ mpc = "orders" /\ mpc' = "products" => current_page = total_pages + 1
          /\ map_file' # map_file =>
               /\ current_page = total_pages + 1
               /\ mpc = "products" /\ pending = {}
               /\ map_file' \in {JsonFile(product_map), CutFile}
          /\ mpc = "products" /\ mpc' = "products" =>
               /\ MapKeys(product_map) \subseteq MapKeys(product_map')
               /\ pending' \subseteq pending]_vars

\* C28 witness: page 1 announced two pages, the fetch of page 2 failed: the
\* run has ended, no product was fetched and the old file is as it was.
C28_Witness ==
    /\ mpc = "aborted"
    /\ total_pages = 2 /\ current_page = 2
    /\ product_map = <<>> /\ map_file = JsonFile(OldMap)

\* The products of the pages that were fetched with success, as <<k, j>>:
\* product j of the k-th fetch; those that have a codigo_erp and a non-empty
\* best image URL.
FetchedProducts ==
    {kj \in (1..Len(fetched)) \X (1..2) :
        /\ ~PageFailed(fetched[kj[1]].resp)
        /\ kj[2] <= Len(fetched[kj[1]].resp[1].data)}
ProductAt(kj) == fetched[kj[1]].resp[1].data[kj[2]]
Eligible(kj) ==
    /\ Truthy(ProductAt(kj).codigo_erp)
    /\ Truthy(get_best_image_url(ProductAt(kj).imagemUrls))
CollectOver == api_pc \in {"collected", "no_tasks", "pool", "done"}

\* C29: when page 1 fails, no other page is fetched, the task list is empty,
\* no download worker is started and no file is touched; otherwise the
\* pages are fetched once each in increasing order, and when the collection
\* is over every page up to page_count was fetched, failed pages included;
\* every task comes from a product with a codigo_erp and a non-empty best
\* image URL, and the products of the pages that did not fail are all
\* there; workers are started only for a non-empty task list.
C29_CollectAllProducts ==
    /\ fetched # <<>> /\ PageFailed(fetched[1].resp) =>
         /\ CollectOver /\ Len(fetched) = 1
         /\ download_tasks = <<>> /\ api_workers = 0 /\ api_pc \notin {"pool", "done"}
         /\ api_attempts = <<>> /\ files = files0
    /\ \A k \in 1..Len(fetched) : fetched[k].page = k
    /\ CollectOver /\ ~PageFailed(fetched[1].resp) =>
         /\ api_total_pages = PageCount(fetched[1].resp)
         /\ Len(fetched) = api_total_pages
    /\ \A n \in 1..Len(download_tasks) :
         \E kj \in FetchedProducts :
             /\ Eligible(kj)
             /\ download_tasks[n] = <<ProductAt(kj).codigo_erp[1],
                                      get_best_image_url(ProductAt(kj).imagemUrls)[1]>>
    /\ Len(download_tasks) = Cardinality({kj \in FetchedProducts : Eligible(kj)})
    /\ api_workers # 0 => download_tasks # <<>> /\ api_pc \in {"pool", "done"}

\* C29 witness: page 1 announced three pages and gave a task, page 2
\* failed, page 3 was fetched and gave a task; the workers were started.
C29_Witness ==
    /\ api_pc = "pool" /\ api_workers = ApiMaxWorkers
    /\ Len(fetched) = 3
    /\ ~PageFailed(fetched[1].resp) /\ PageFailed(fetched[2].resp)
    /\ ~PageFailed(fetched[3].resp)
    /\ download_tasks = <<<<<<"A10">>, UrlPlain>>, <<<<"B20">>, UrlPlain2>>>>

====
